---- MODULE Spec2Model ----
\* A model of the BFV evaluator of lattigo (bfv/evaluator.go): the arithmetic
\* operations, tensor-and-rescale, relinearization, key switching and the
\* rotations, over a small negacyclic ring Z_q[X]/(X^N+1).
EXTENDS Integers, Sequences, FiniteSets, TLC

\* ---------------------------------------------------------------- parameters

\* Ring degree (bfvcontext.n): two rows of N/2 = 8 slots.
N == 16

\* Number of polynomials of each work element of ctxpool (NewCiphertextBig(5)).
PoolLen == 5

\* Largest degree of the operands the caller hands in.
MaxDeg == 3

\* Number of distinct families of operand coefficients the caller draws from.
NumSeeds == 1

\* Largest number of digits of a switching key handed to SwitchKeys.
MaxDigits == 17

\* contextQ and contextQP: modulus, a primitive 2N-th root of unity psi, and
\* the Montgomery radix 2^64 reduced modulo the modulus.
contextQ == [mod |-> 97, psi |-> 19, R |-> 61]

contextQP == [mod |-> 18721, psi |-> 42, R |-> 4523]

\* Bit length of the modulus of contextQ, and of the machine word that holds a
\* coefficient: one bit more than the modulus (63-bit moduli on 64-bit limbs).
ModulusBits == 7

WordBits == ModulusBits + 1

\* Plaintext modulus t and the Galois elements of the context.
PlainT == 5

gen == 5

genInv == 13

galElRotRow == 2 * N - 1

RECURSIVE PowMod(_, _, _)
PowMod(b, e, m) == IF e = 0 THEN 1 % m ELSE (b * PowMod(b, e - 1, m)) % m

InvMod(a, m) == CHOOSE x \in 1..(m - 1) : (a * x) % m = 1

galElRotColLeft == [k \in 0..(N \div 2 - 1) |-> PowMod(gen, k, 2 * N)]

\* ------------------------------------------------------------ ring (external)

\* A polynomial: its N coefficients c (or NTT points) and the domain d its data
\* is in: "coef", "ntt", "zero" (a zeroed polynomial, valid in both) or "bad"
\* (a transform or permutation was applied to data of the wrong domain).
Idx == 0..(N - 1)

ZeroPoly == [c |-> [u \in Idx |-> 0], d |-> "zero"]

JoinDom(x, y) ==
    IF x = "zero" THEN y
    ELSE IF y = "zero" THEN x
    ELSE IF x = y THEN x ELSE "bad"

RECURSIVE SumTo(_, _)
SumTo(f, n) == IF n < 0 THEN 0 ELSE f[n] + SumTo(f, n - 1)

PsiTab(ctx) == [e \in 0..(2 * N - 1) |-> PowMod(ctx.psi, e, ctx.mod)]

PsiQ == PsiTab(contextQ)

PsiQP == PsiTab(contextQP)

Tab(ctx) == IF ctx.mod = contextQ.mod THEN PsiQ ELSE PsiQP

NInv(ctx) == InvMod(N % ctx.mod, ctx.mod)

NInvQ == NInv(contextQ)

NInvQP == NInv(contextQP)

RInvQ == InvMod(contextQ.R, contextQ.mod)

RInvQP == InvMod(contextQP.R, contextQP.mod)

RInv(ctx) == IF ctx.mod = contextQ.mod THEN RInvQ ELSE RInvQP

\* NTT: point j is the value of the polynomial at psi^(2j+1).
NTT(ctx, p) ==
    [c |-> [j \in Idx |->
              SumTo([i \in Idx |-> ((p.c[i] % ctx.mod) * Tab(ctx)[(i * (2 * j + 1)) % (2 * N)]) % ctx.mod],
                    N - 1) % ctx.mod],
     d |-> IF p.d = "coef" THEN "ntt" ELSE IF p.d = "zero" THEN "zero" ELSE "bad"]

\* InvNTT: coefficient i is (1/N) * sum_j v_j * psi^(-i(2j+1)).
InvNTT(ctx, p) ==
    [c |-> [i \in Idx |->
              ((SumTo([j \in Idx |-> ((p.c[j] % ctx.mod) * Tab(ctx)[((2 * N) - ((i * (2 * j + 1)) % (2 * N))) % (2 * N)]) % ctx.mod],
                      N - 1) % ctx.mod)
               * (IF ctx.mod = contextQ.mod THEN NInvQ ELSE NInvQP)) % ctx.mod],
     d |-> IF p.d = "ntt" THEN "coef" ELSE IF p.d = "zero" THEN "zero" ELSE "bad"]

Add(ctx, a, b) ==
    [c |-> [u \in Idx |-> (a.c[u] + b.c[u]) % ctx.mod], d |-> JoinDom(a.d, b.d)]

AddNoMod(ctx, a, b) ==
    [c |-> [u \in Idx |-> a.c[u] + b.c[u]], d |-> JoinDom(a.d, b.d)]

Sub(ctx, a, b) ==
    [c |-> [u \in Idx |-> (a.c[u] + (ctx.mod - b.c[u])) % ctx.mod], d |-> JoinDom(a.d, b.d)]

SubNoMod(ctx, a, b) ==
    [c |-> [u \in Idx |-> a.c[u] + (ctx.mod - b.c[u])], d |-> JoinDom(a.d, b.d)]

Neg(ctx, a) == [c |-> [u \in Idx |-> ctx.mod - a.c[u]], d |-> a.d]

Reduce(ctx, a) == [c |-> [u \in Idx |-> a.c[u] % ctx.mod], d |-> a.d]

MulScalar(ctx, a, scalar) ==
    [c |-> [u \in Idx |-> (a.c[u] * (scalar % ctx.mod)) % ctx.mod], d |-> a.d]

\* Montgomery form and Montgomery product a*b/R.
MForm(ctx, a) ==
    [c |-> [u \in Idx |-> ((a.c[u] % ctx.mod) * ctx.R) % ctx.mod], d |-> a.d]

MontMul(ctx, a, b, u) == ((((a.c[u] % ctx.mod) * (b.c[u] % ctx.mod)) % ctx.mod) * RInv(ctx)) % ctx.mod

MulCoeffsMontgomery(ctx, a, b) ==
    [c |-> [u \in Idx |-> MontMul(ctx, a, b, u)], d |-> JoinDom(a.d, b.d)]

MulCoeffsMontgomeryAndAdd(ctx, a, b, acc) ==
    [c |-> [u \in Idx |-> (acc.c[u] + MontMul(ctx, a, b, u)) % ctx.mod],
     d |-> JoinDom(acc.d, JoinDom(a.d, b.d))]

MulCoeffsMontgomeryAndAddNoMod(ctx, a, b, acc) ==
    [c |-> [u \in Idx |-> acc.c[u] + MontMul(ctx, a, b, u)],
     d |-> JoinDom(acc.d, JoinDom(a.d, b.d))]

\* Galois automorphism X -> X^g on coefficients: X^i goes to +-X^(i*g mod N).
PermSrc(g, u) == CHOOSE i \in Idx : (i * g) % N = u

Permute(ctx, p, g) ==
    [c |-> [u \in Idx |->
              LET i == PermSrc(g, u)
              IN  IF ((i * g) % (2 * N)) >= N THEN (ctx.mod - p.c[i]) % ctx.mod ELSE p.c[i]],
     d |-> IF p.d \in {"coef", "zero"} THEN p.d ELSE "bad"]

\* The same automorphism on NTT points: point j moves to psi^((2j+1)g).
PermuteNTT(p, g) ==
    [c |-> [j \in Idx |-> p.c[((((2 * j + 1) * g) % (2 * N)) - 1) \div 2]],
     d |-> IF p.d \in {"ntt", "zero"} THEN p.d ELSE "bad"]

\* BasisExtender.ExtendBasis: the residue modulo Q lifted to Q*P.
ExtendBasis(p) == [c |-> [u \in Idx |-> p.c[u] % contextQ.mod], d |-> p.d]

\* ComplexScaler.Scale: round(t/Q * x) of the centred x, reduced modulo Q.
Scale(p) ==
    [c |-> [u \in Idx |->
              LET x == IF 2 * p.c[u] > contextQP.mod THEN p.c[u] - contextQP.mod ELSE p.c[u]
              IN  ((2 * PlainT * x + contextQ.mod) \div (2 * contextQ.mod)) % contextQ.mod],
     d |-> IF p.d \in {"coef", "zero"} THEN p.d ELSE "bad"]

\* ------------------------------------------------------------ machine state

VARIABLES
    heap,      \* the caller's elements: id -> [value: 0..degree -> poly, isNTT]
    polypool,  \* evaluator.polypool: 0..3 -> poly
    ctxpool,   \* evaluator.ctxpool: 0..2 -> (0..PoolLen-1 -> poly)
    keys,      \* the key material handed to the last call
    pre,       \* heap and pools as they were when the last call started
    call,      \* the last call: operation and arguments
    ret,       \* its outcome: "ok", an error, or "panic" (run-time abort)
    log,       \* ring-level events of the last call (permutations, key switches)
    first,     \* the call before the last one, when two rotations were chained
    pc         \* "idle" (no call yet), "done", "rot1" or "rot2" (rotations made)

vars == <<heap, polypool, ctxpool, keys, pre, call, ret, log, first, pc>>

\* The nil operand.
Nil == 0

\* A machine is [heap, pp, cp, log, ret]; ret = "ok" while the call is running
\* normally; once it is an error or "panic" the remaining steps do nothing.
Machine(h, pp, cp) == [heap |-> h, pp |-> pp, cp |-> cp, log |-> <<>>, ret |-> "ok"]

\* A location is a pointer to a polynomial: <<"el", id, i>> is heap[id].value[i],
\* <<"pp", 0, i>> is polypool[i], <<"cp", e, i>> is ctxpool[e].value[i].
Valid(S, l) ==
    CASE l[1] = "el" -> l[2] \in DOMAIN S.heap /\ l[3] \in DOMAIN S.heap[l[2]].value
      [] l[1] = "pp" -> l[3] \in DOMAIN S.pp
      [] l[1] = "cp" -> l[2] \in DOMAIN S.cp /\ l[3] \in DOMAIN S.cp[l[2]]

Read(S, l) ==
    CASE l[1] = "el" -> S.heap[l[2]].value[l[3]]
      [] l[1] = "pp" -> S.pp[l[3]]
      [] l[1] = "cp" -> S.cp[l[2]][l[3]]

Write(S, l, p) ==
    CASE l[1] = "el" -> [S EXCEPT !.heap[l[2]].value[l[3]] = p]
      [] l[1] = "pp" -> [S EXCEPT !.pp[l[3]] = p]
      [] l[1] = "cp" -> [S EXCEPT !.cp[l[2]][l[3]] = p]

Panic(S) == [S EXCEPT !.ret = "panic"]

Fail(S, e) == [S EXCEPT !.ret = e]

\* The coefficients of p are computed here, once, whatever the number of
\* later reads (TLC keeps a function it is about to apply unevaluated).
Evaluated(p) == p.c = p.c

\* Storing p at dst after reading the locations srcs: an index out of range
\* in any of them aborts the call.
Store(S, srcs, dst, p) ==
    IF S.ret # "ok" THEN S
    ELSE IF \E l \in srcs \cup {dst} : ~Valid(S, l) THEN Panic(S)
    ELSE IF Evaluated(p) THEN Write(S, dst, p) ELSE S

Get(S, l) == IF S.ret = "ok" /\ Valid(S, l) THEN Read(S, l) ELSE ZeroPoly

Emit(S, ev) == IF S.ret # "ok" THEN S ELSE [S EXCEPT !.log = Append(@, ev)]

\* The event of one accumulation into the receiver: the pair (i, j) and the
\* two accumulators as they stand after it.
EmitAcc(S, cOut, i, j) == Emit(S, <<"acc", i, j, S.heap[cOut].value>>)

ValueLen(S, id) == Cardinality(DOMAIN S.heap[id].value)

Degree(S, id) == ValueLen(S, id) - 1

IsNTT(S, id) == S.heap[id].isNTT

Max(a, b) == IF a > b THEN a ELSE b

Min(a, b) == IF a < b THEN a ELSE b

\* Poly.Copy: p.Copy(p1) copies the receiver p onto p1.
PolyCopy(S, p, p1) == Store(S, {p}, p1, Get(S, p))

\* Context.Copy(p0, p1) copies p0 onto p1.
ContextCopy(S, p0, p1) == Store(S, {p0}, p1, Get(S, p0))

\* ------------------------------------------------- additive and unary operations

getElemAndCheckBinary(S, op0, op1, opOut, opOutMinDegree) ==
    IF op0 = Nil \/ op1 = Nil \/ opOut = Nil THEN Fail(S, "operands cannot be nil")
    ELSE IF Degree(S, opOut) < opOutMinDegree THEN Fail(S, "receiver operand degree is too small")
    ELSE S

getElemAndCheckUnary(S, op0, opOut, opOutMinDegree) ==
    IF op0 = Nil \/ opOut = Nil THEN Fail(S, "operand cannot be nil")
    ELSE IF Degree(S, opOut) < opOutMinDegree THEN Fail(S, "receiver operand degree is too small")
    ELSE S

\* The ring function an additive operation hands to evaluateInPlaceBinary.
EvalBin(evaluate, a, b) ==
    CASE evaluate = "Add" -> Add(contextQ, a, b)
      [] evaluate = "AddNoMod" -> AddNoMod(contextQ, a, b)
      [] evaluate = "Sub" -> Sub(contextQ, a, b)
      [] evaluate = "SubNoMod" -> SubNoMod(contextQ, a, b)

BinaryOps == {"Add", "AddNoMod", "Sub", "SubNoMod"}

RECURSIVE EvalBinLoop(_, _, _, _, _, _, _)
EvalBinLoop(S, el0, el1, elOut, evaluate, i, n) ==
    IF i >= n THEN S
    ELSE EvalBinLoop(
           Store(S, {<<"el", el0, i>>, <<"el", el1, i>>}, <<"el", elOut, i>>,
                 EvalBin(evaluate, Get(S, <<"el", el0, i>>), Get(S, <<"el", el1, i>>))),
           el0, el1, elOut, evaluate, i + 1, n)

RECURSIVE CopyLoop(_, _, _, _, _)
CopyLoop(S, largest, elOut, i, n) ==
    IF i >= n THEN S
    ELSE CopyLoop(PolyCopy(S, <<"el", largest, i>>, <<"el", elOut, i>>), largest, elOut, i + 1, n)

\* evaluateInPlaceBinary copying the remaining polynomials only when el0 is the larger operand.
evaluateInPlaceBinary_CopyEl0Only(S, el0, el1, elOut, evaluate) ==
    LET maxDegree == Max(Degree(S, el0), Degree(S, el1))
        minDegree == Min(Degree(S, el0), Degree(S, el1))
        S1 == EvalBinLoop(S, el0, el1, elOut, evaluate, 0, minDegree + 1)
        largest == IF Degree(S, el0) > Degree(S, el1) THEN el0 ELSE Nil
    IN  IF largest # Nil /\ largest # elOut
        THEN CopyLoop(S1, largest, elOut, minDegree + 1, maxDegree + 1)
        ELSE S1

evaluateInPlaceBinary(S, el0, el1, elOut, evaluate) ==
    LET maxDegree == Max(Degree(S, el0), Degree(S, el1))
        minDegree == Min(Degree(S, el0), Degree(S, el1))
        S1 == EvalBinLoop(S, el0, el1, elOut, evaluate, 0, minDegree + 1)
        largest == IF Degree(S, el0) > Degree(S, el1) THEN el0
                   ELSE IF Degree(S, el1) > Degree(S, el0) THEN el1 ELSE Nil
    IN  IF largest # Nil /\ largest # elOut
        THEN CopyLoop(S1, largest, elOut, minDegree + 1, maxDegree + 1)
        ELSE S1

\* Add, AddNoMod, Sub, SubNoMod: the required degree max(op0.Degree(),
\* op1.Degree()) is computed before the operands are checked, so a nil op0 or
\* op1 is dereferenced.
BinaryOp(S, evaluate, op0, op1, opOut) ==
    IF op0 = Nil \/ op1 = Nil THEN Panic(S)
    ELSE LET S1 == getElemAndCheckBinary(S, op0, op1, opOut,
                                         Max(Degree(S, op0), Degree(S, op1)))
         IN  IF S1.ret # "ok" THEN S1
             ELSE evaluateInPlaceBinary(S1, op0, op1, opOut, evaluate)

EvalUn(evaluate, a, scalar) ==
    CASE evaluate = "Neg" -> Neg(contextQ, a)
      [] evaluate = "Reduce" -> Reduce(contextQ, a)
      [] evaluate = "MulScalar" -> MulScalar(contextQ, a, scalar)

UnaryOps == {"Neg", "Reduce", "MulScalar"}

RECURSIVE evaluateInPlaceUnaryLoop(_, _, _, _, _, _)
evaluateInPlaceUnaryLoop(S, el0, elOut, evaluate, scalar, i) ==
    IF i >= ValueLen(S, el0) THEN S
    ELSE evaluateInPlaceUnaryLoop(
           Store(S, {<<"el", el0, i>>}, <<"el", elOut, i>>,
                 EvalUn(evaluate, Get(S, <<"el", el0, i>>), scalar)),
           el0, elOut, evaluate, scalar, i + 1)

evaluateInPlaceUnary(S, el0, elOut, evaluate, scalar) ==
    evaluateInPlaceUnaryLoop(S, el0, elOut, evaluate, scalar, 0)

\* Neg, Reduce, MulScalar: op.Degree() is computed before the nil check.
\* MulScalar takes *bfvElement arguments: a nil receiver reaches the nil test as a
\* non-nil Operand and is dereferenced by opOut.Degree().
UnaryOp(S, evaluate, scalar, op, opOut) ==
    IF op = Nil THEN Panic(S)
    ELSE IF evaluate = "MulScalar" /\ opOut = Nil THEN Panic(S)
    ELSE LET S1 == getElemAndCheckUnary(S, op, opOut, Degree(S, op))
         IN  IF S1.ret # "ok" THEN S1
             ELSE evaluateInPlaceUnary(S1, op, opOut, evaluate, scalar)

\* ------------------------------------------------------- tensor and rescale

\* for i := range ct.value { ExtendBasis(ct.value[i], c.value[i]); NTT(c.value[i], c.value[i]) }
RECURSIVE ExtendLoop(_, _, _, _)
ExtendLoop(S, ct, c, i) ==
    IF i >= ValueLen(S, ct) THEN S
    ELSE LET S1 == Store(S, {<<"el", ct, i>>}, <<"cp", c, i>>, ExtendBasis(Get(S, <<"el", ct, i>>)))
             S2 == Store(S1, {<<"cp", c, i>>}, <<"cp", c, i>>, NTT(contextQP, Get(S1, <<"cp", c, i>>)))
         IN  ExtendLoop(S2, ct, c, i + 1)

\* TensorDegreeOne with the cross term d1 of the squaring case left undoubled.
TensorDegreeOne_NoDoubling(S, squaring) ==
    LET c00 == <<"pp", 0, 0>>
        c01 == <<"pp", 0, 1>>
        A0 == <<"cp", 0, 0>>
        A1 == <<"cp", 0, 1>>
        B0 == <<"cp", 1, 0>>
        B1 == <<"cp", 1, 1>>
        S1 == Store(S, {A0}, c00, MForm(contextQP, Get(S, A0)))
        S2 == Store(S1, {A1}, c01, MForm(contextQP, Get(S1, A1)))
        X0 == IF squaring THEN A0 ELSE B0
        X1 == IF squaring THEN A1 ELSE B1
        T1 == Store(S2, {c00, X0}, <<"cp", 2, 0>>, MulCoeffsMontgomery(contextQP, Get(S2, c00), Get(S2, X0)))
        T2 == Store(T1, {c00, X1}, <<"cp", 2, 1>>, MulCoeffsMontgomery(contextQP, Get(T1, c00), Get(T1, X1)))
        T3 == IF squaring THEN T2
              ELSE Store(T2, {c01, X0}, <<"cp", 2, 1>>,
                         MulCoeffsMontgomeryAndAddNoMod(contextQP, Get(T2, c01), Get(T2, X0), Get(T2, <<"cp", 2, 1>>)))
    IN  Store(T3, {c01, X1}, <<"cp", 2, 2>>, MulCoeffsMontgomery(contextQP, Get(T3, c01), Get(T3, X1)))

\* Both elements of degree 1: d0, d1, d2 from the Montgomery forms c_00, c_01.
TensorDegreeOne(S, squaring) ==
    LET c00 == <<"pp", 0, 0>>
        c01 == <<"pp", 0, 1>>
        d0 == <<"cp", 2, 0>>
        d1 == <<"cp", 2, 1>>
        d2 == <<"cp", 2, 2>>
        A0 == <<"cp", 0, 0>>
        A1 == <<"cp", 0, 1>>
        B0 == <<"cp", 1, 0>>
        B1 == <<"cp", 1, 1>>
        S1 == Store(S, {A0}, c00, MForm(contextQP, Get(S, A0)))
        S2 == Store(S1, {A1}, c01, MForm(contextQP, Get(S1, A1)))
    IN  IF squaring
        THEN LET T1 == Store(S2, {c00, A0}, d0, MulCoeffsMontgomery(contextQP, Get(S2, c00), Get(S2, A0)))
                 T2 == Store(T1, {c00, A1}, d1, MulCoeffsMontgomery(contextQP, Get(T1, c00), Get(T1, A1)))
                 T3 == Store(T2, {d1}, d1, Add(contextQP, Get(T2, d1), Get(T2, d1)))
             IN  Store(T3, {c01, A1}, d2, MulCoeffsMontgomery(contextQP, Get(T3, c01), Get(T3, A1)))
        ELSE LET T1 == Store(S2, {c00, B0}, d0, MulCoeffsMontgomery(contextQP, Get(S2, c00), Get(S2, B0)))
                 T2 == Store(T1, {c00, B1}, d1, MulCoeffsMontgomery(contextQP, Get(T1, c00), Get(T1, B1)))
                 T3 == Store(T2, {c01, B0, d1}, d1,
                             MulCoeffsMontgomeryAndAddNoMod(contextQP, Get(T2, c01), Get(T2, B0), Get(T2, d1)))
             IN  Store(T3, {c01, B1}, d2, MulCoeffsMontgomery(contextQP, Get(T3, c01), Get(T3, B1)))

\* for i := 0; i < len(ct0.Value())+len(ct1.Value()); i++ { tmpCout.value[i].Zero() }
RECURSIVE ZeroLoop(_, _, _)
ZeroLoop(S, i, n) ==
    IF i >= n THEN S
    ELSE ZeroLoop(Store(S, {}, <<"cp", 2, i>>, ZeroPoly), i + 1, n)

\* for i := range ct0.value { MForm(c0.value[i], c_00.value[i]) }, c_00 = ctxpool[1]
RECURSIVE SquareMFormLoop(_, _, _)
SquareMFormLoop(S, ct0, i) ==
    IF i >= ValueLen(S, ct0) THEN S
    ELSE SquareMFormLoop(
           Store(S, {<<"cp", 0, i>>}, <<"cp", 1, i>>, MForm(contextQP, Get(S, <<"cp", 0, i>>))),
           ct0, i + 1)

\* One cross term of the squaring loop: tmpCout[i+j] = c_00[i]*c0[j], then doubled.
SquareCrossTerm(S, i, j) ==
    LET a == <<"cp", 1, i>>
        b == <<"cp", 0, j>>
        t == <<"cp", 2, i + j>>
        S1 == Store(S, {a, b}, t, MulCoeffsMontgomery(contextQP, Get(S, a), Get(S, b)))
    IN  Store(S1, {t}, t, Add(contextQP, Get(S1, t), Get(S1, t)))

RECURSIVE SquareCrossLoop(_, _, _, _)
SquareCrossLoop(S, ct0, i, j) ==
    IF i >= Degree(S, ct0) + 1 THEN S
    ELSE IF j >= Degree(S, ct0) + 1 THEN SquareCrossLoop(S, ct0, i + 1, i + 2)
    ELSE SquareCrossLoop(Emit(SquareCrossTerm(S, i, j), <<"cross", i, j>>), ct0, i, j + 1)

\* The diagonal terms: tmpCout[2i] += c_00[i]*c0[i].
RECURSIVE SquareDiagLoop(_, _, _)
SquareDiagLoop(S, ct0, i) ==
    IF i >= Degree(S, ct0) + 1 THEN S
    ELSE LET a == <<"cp", 1, i>>
             b == <<"cp", 0, i>>
             t == <<"cp", 2, 2 * i>>
         IN  SquareDiagLoop(
               Emit(Store(S, {a, b, t}, t,
                          MulCoeffsMontgomeryAndAdd(contextQP, Get(S, a), Get(S, b), Get(S, t))),
                    <<"diag", i>>),
               ct0, i + 1)

\* Normal case: c0[i] is put in Montgomery form in place, then multiplied with every c1[j].
RECURSIVE NormalLoop(_, _, _, _, _)
NormalLoop(S, ct0, ct1, i, j) ==
    IF i >= ValueLen(S, ct0) THEN S
    ELSE IF j >= ValueLen(S, ct1) THEN NormalLoop(S, ct0, ct1, i + 1, -1)
    ELSE IF j < 0
         THEN NormalLoop(Store(S, {<<"cp", 0, i>>}, <<"cp", 0, i>>, MForm(contextQP, Get(S, <<"cp", 0, i>>))),
                         ct0, ct1, i, 0)
    ELSE LET a == <<"cp", 0, i>>
             b == <<"cp", 1, j>>
             t == <<"cp", 2, i + j>>
         IN  NormalLoop(Store(S, {a, b, t}, t,
                              MulCoeffsMontgomeryAndAdd(contextQP, Get(S, a), Get(S, b), Get(S, t))),
                        ct0, ct1, i, j + 1)

TensorGeneral(S, ct0, ct1) ==
    LET S1 == ZeroLoop(S, 0, ValueLen(S, ct0) + ValueLen(S, ct1))
    IN  IF ct0 = ct1
        THEN SquareDiagLoop(SquareCrossLoop(SquareMFormLoop(S1, ct0, 0), ct0, 0, 1), ct0, 0)
        ELSE NormalLoop(S1, ct0, ct1, 0, -1)

\* for i := range cOut.value { InvNTT(tmpCout.value[i]); Scale(tmpCout.value[i], cOut.value[i]) }
RECURSIVE RescaleLoop(_, _, _)
RescaleLoop(S, cOut, i) ==
    IF i >= ValueLen(S, cOut) THEN S
    ELSE LET t == <<"cp", 2, i>>
             S1 == Store(S, {t}, t, InvNTT(contextQP, Get(S, t)))
             S2 == Store(S1, {t}, <<"el", cOut, i>>, Scale(Get(S1, t)))
         IN  RescaleLoop(S2, cOut, i + 1)

\* The tensoring of tensorAndRescale (lines 219-313); the log records tmpCout
\* as it stands before the inverse NTT.
Tensor(S, ct0, ct1) ==
    LET S1 == IF ct0 = ct1 THEN ExtendLoop(S, ct0, 0, 0)
              ELSE ExtendLoop(ExtendLoop(S, ct0, 0, 0), ct1, 1, 0)
        S2 == IF Degree(S, ct0) = 1 /\ Degree(S, ct1) = 1
              THEN TensorDegreeOne(S1, ct0 = ct1)
              ELSE TensorGeneral(S1, ct0, ct1)
    IN  Emit(S2, <<"tensor", S2.cp[2]>>)

tensorAndRescale(S, ct0, ct1, cOut) == RescaleLoop(Tensor(S, ct0, ct1), cOut, 0)

\* Mul: op0.Degree()+op1.Degree() is computed before the nil check.
Mul(S, op0, op1, opOut) ==
    IF op0 = Nil \/ op1 = Nil THEN Panic(S)
    ELSE LET S1 == getElemAndCheckBinary(S, op0, op1, opOut, Degree(S, op0) + Degree(S, op1))
         IN  IF S1.ret # "ok" THEN S1 ELSE tensorAndRescale(S1, op0, op1, opOut)

\* ---------------------------------------------------------------- switchKeys

\* The nil *SwitchingKey.
NilKey == [name |-> Nil, bitDecomp |-> 0, evakey |-> <<>>]

IsNilKey(evakey) == evakey.name = Nil

\* Number of moduli of contextQ (len(contextQ.Modulus)).
NumModuli == 1

RECURSIVE Pow2(_)
Pow2(n) == IF n = 0 THEN 1 ELSE 2 * Pow2(n - 1)

\* c2_qi_w: digit j (base 2^bitDecomp) of every coefficient of row i of c2.
Digit(c2, j, bitDecomp) ==
    [c |-> [u \in Idx |-> (c2.c[u] \div Pow2(j * bitDecomp)) % Pow2(bitDecomp)],
     d |-> IF c2.d \in {"coef", "zero"} THEN "coef" ELSE "bad"]

\* if reduce&7 == 7 { Reduce(cOut.value[0]); Reduce(cOut.value[1]) }
ReduceOut(S, cOut) ==
    LET o0 == <<"el", cOut, 0>>
        o1 == <<"el", cOut, 1>>
        S1 == Store(S, {o0}, o0, Reduce(contextQ, Get(S, o0)))
        S2 == Store(S1, {o1}, o1, Reduce(contextQ, Get(S1, o1)))
    IN  Emit(S2, <<"reduce">>)

\* The pass with the counter tested for 0 instead of 7: a Reduce after the 1st, 9th, ... accumulation.
SwitchKeysStep_ReduceOnZero(S, c2, evakey, cOut, i, j, reduce) ==
    LET w == <<"pp", 0, 3>>
        o0 == <<"el", cOut, 0>>
        o1 == <<"el", cOut, 1>>
        S1 == Store(S, {c2}, w, Digit(Get(S, c2), j, evakey.bitDecomp))
        S2 == Store(S1, {w}, w, NTT(contextQ, Get(S1, w)))
        S3 == Store(S2, {w, o0}, o0,
                    MulCoeffsMontgomeryAndAddNoMod(contextQ, evakey.evakey[i][j][1], Get(S2, w), Get(S2, o0)))
        S4 == Store(S3, {w, o1}, o1,
                    MulCoeffsMontgomeryAndAddNoMod(contextQ, evakey.evakey[i][j][2], Get(S3, w), Get(S3, o1)))
        S5 == EmitAcc(S4, cOut, i, j)
    IN  IF reduce % 8 = 0 THEN ReduceOut(S5, cOut) ELSE S5

\* One pass of the inner loop for the pair (i, j), reduce accumulations done
\* before; the event records the accumulators.
SwitchKeysStep(S, c2, evakey, cOut, i, j, reduce) ==
    LET w == <<"pp", 0, 3>>
        o0 == <<"el", cOut, 0>>
        o1 == <<"el", cOut, 1>>
        S1 == Store(S, {c2}, w, Digit(Get(S, c2), j, evakey.bitDecomp))
        S2 == Store(S1, {w}, w, NTT(contextQ, Get(S1, w)))
        S3 == Store(S2, {w, o0}, o0,
                    MulCoeffsMontgomeryAndAddNoMod(contextQ, evakey.evakey[i][j][1], Get(S2, w), Get(S2, o0)))
        S4 == Store(S3, {w, o1}, o1,
                    MulCoeffsMontgomeryAndAddNoMod(contextQ, evakey.evakey[i][j][2], Get(S3, w), Get(S3, o1)))
        S5 == EmitAcc(S4, cOut, i, j)
    IN  IF reduce % 8 = 7 THEN ReduceOut(S5, cOut) ELSE S5

RECURSIVE SwitchKeysLoop(_, _, _, _, _, _, _)
SwitchKeysLoop(S, c2, evakey, cOut, i, j, reduce) ==
    IF S.ret # "ok" THEN S
    ELSE IF i >= NumModuli
    THEN \* if (reduce-1)&7 != 7: reduce is a uint64, 0-1 wraps to 2^64-1
         IF (IF reduce = 0 THEN 7 ELSE (reduce - 1) % 8) # 7 THEN ReduceOut(S, cOut) ELSE S
    ELSE IF i \notin DOMAIN evakey.evakey THEN Panic(S)
    ELSE IF j >= Cardinality(DOMAIN evakey.evakey[i])
    THEN SwitchKeysLoop(S, c2, evakey, cOut, i + 1, 0, reduce)
    ELSE SwitchKeysLoop(SwitchKeysStep(S, c2, evakey, cOut, i, j, reduce),
                        c2, evakey, cOut, i, j + 1, reduce + 1)

\* switchKeys(evaluator, c0, c1, c2, evakey, cOut): accumulates into
\* cOut.value[0] and cOut.value[1]; c0 and c1 are not used by the body. A nil
\* evakey is dereferenced.
switchKeys(S, c0, c1, c2, evakey, cOut) ==
    IF S.ret # "ok" THEN S
    ELSE IF IsNilKey(evakey) THEN Panic(S)
    ELSE SwitchKeysLoop(Emit(S, <<"ks", evakey.name>>), c2, evakey, cOut, 0, 0, 0)

\* bfvElement.NTT(context, out) and bfvElement.InvNTT(context, out): every
\* polynomial of the element transformed into the same index of out.
RECURSIVE ElementNTT(_, _, _, _)
ElementNTT(S, el, out, i) ==
    IF i >= ValueLen(S, el) THEN S
    ELSE ElementNTT(Store(S, {<<"el", el, i>>}, <<"el", out, i>>, NTT(contextQ, Get(S, <<"el", el, i>>))),
                    el, out, i + 1)

RECURSIVE ElementInvNTT(_, _, _, _)
ElementInvNTT(S, el, out, i) ==
    IF i >= ValueLen(S, el) THEN S
    ELSE ElementInvNTT(Store(S, {<<"el", el, i>>}, <<"el", out, i>>, InvNTT(contextQ, Get(S, <<"el", el, i>>))),
                       el, out, i + 1)

\* NewCiphertext(degree): a fresh element of degree+1 zero polynomials.
NewId(S) == Cardinality(DOMAIN S.heap) + 1

NewCiphertext(S, degree) ==
    [S EXCEPT !.heap = [id \in (DOMAIN S.heap) \cup {NewId(S)} |->
                          IF id = NewId(S)
                          THEN [value |-> [i \in 0..degree |-> ZeroPoly], isNTT |-> FALSE]
                          ELSE S.heap[id]]]

\* ------------------------------------------------------------ relinearization

RECURSIVE RelinLoop(_, _, _, _, _)
RelinLoop(S, cIn, evakey, cOut, deg) ==
    IF deg <= 1 \/ S.ret # "ok" THEN S
    ELSE IF (deg - 2) \notin DOMAIN evakey.evakey THEN Panic(S)
    ELSE RelinLoop(switchKeys(S, <<"el", cOut, 0>>, <<"el", cOut, 1>>, <<"el", cIn, deg>>,
                              evakey.evakey[deg - 2], cOut),
                   cIn, evakey, cOut, deg - 1)

\* cOut.SetValue(cOut.value[:2])
Truncate(S, cOut) ==
    IF S.ret # "ok" \/ ValueLen(S, cOut) <= 2 THEN S
    ELSE [S EXCEPT !.heap[cOut].value = [i \in 0..1 |-> S.heap[cOut].value[i]]]

relinearize(S, cIn, evakey, cOut) ==
    LET i0 == <<"el", cIn, 0>>
        i1 == <<"el", cIn, 1>>
        o0 == <<"el", cOut, 0>>
        o1 == <<"el", cOut, 1>>
        S1 == Store(S, {i0}, o0, NTT(contextQ, Get(S, i0)))
        S2 == Store(S1, {i1}, o1, NTT(contextQ, Get(S1, i1)))
        S3 == RelinLoop(S2, cIn, evakey, cOut, Degree(S, cIn))
        S4 == Truncate(S3, cOut)
        S5 == Store(S4, {o0}, o0, InvNTT(contextQ, Get(S4, o0)))
    IN  Store(S5, {o1}, o1, InvNTT(contextQ, Get(S5, o1)))

\* int(cIn.Degree()-1): the uint64 difference wraps at degree 0 and converts to -1.
DegreeMinusOne(S, cIn) == IF Degree(S, cIn) = 0 THEN -1 ELSE Degree(S, cIn) - 1

\* The key-count guard off by one: a key set of exactly d-1 keys is refused.
RelinearizeCheck_OffByOne(S, cIn, evakey) ==
    IF DegreeMinusOne(S, cIn) >= Cardinality(DOMAIN evakey.evakey)
    THEN Fail(S, "error : ciphertext degree too large to allow relinearization")
    ELSE IF Degree(S, cIn) < 2
    THEN Fail(S, "error : ciphertext is already of degree 1 or 0")
    ELSE S

RelinearizeCheck(S, cIn, evakey) ==
    IF DegreeMinusOne(S, cIn) > Cardinality(DOMAIN evakey.evakey)
    THEN Fail(S, "error : ciphertext degree too large to allow relinearization")
    ELSE IF Degree(S, cIn) < 2
    THEN Fail(S, "error : ciphertext is already of degree 1 or 0")
    ELSE S

Relinearize(S, cIn, evakey, cOut) ==
    LET S1 == RelinearizeCheck(S, cIn, evakey)
    IN  IF S1.ret # "ok" THEN S1 ELSE relinearize(S1, cIn, evakey, cOut)

\* The allocated receiver is the new element NewId(S).
RelinearizeNew(S, cIn, evakey) ==
    LET S1 == RelinearizeCheck(S, cIn, evakey)
    IN  IF S1.ret # "ok" THEN S1
        ELSE relinearize(NewCiphertext(S1, 1), cIn, evakey, NewId(S1))

\* ---------------------------------------------------------------- SwitchKeys

\* SwitchKeys reading cIn.value[1] where it lies, also when cIn is the receiver.
SwitchKeys_NoStaging(S, cIn, switchkey, cOut) ==
    IF Degree(S, cIn) # 1
    THEN Fail(S, "error : ciphertext must be of degree 1 to allow key switching")
    ELSE IF Degree(S, cOut) # 1
    THEN Fail(S, "error : receiver ciphertext must be of degree 1 to allow key switching")
    ELSE LET S2 == ElementNTT(S, cIn, cOut, 0)
             S3 == switchKeys(S2, <<"el", cOut, 0>>, <<"el", cOut, 1>>, <<"el", cIn, 1>>,
                              switchkey, cOut)
         IN  ElementInvNTT(S3, cOut, cOut, 0)

SwitchKeys(S, cIn, switchkey, cOut) ==
    IF Degree(S, cIn) # 1
    THEN Fail(S, "error : ciphertext must be of degree 1 to allow key switching")
    ELSE IF Degree(S, cOut) # 1
    THEN Fail(S, "error : receiver ciphertext must be of degree 1 to allow key switching")
    ELSE LET c2 == IF cIn = cOut THEN <<"pp", 0, 1>> ELSE <<"el", cIn, 1>>
             S1 == IF cIn = cOut THEN PolyCopy(S, <<"el", cIn, 1>>, c2) ELSE S
             S2 == ElementNTT(S1, cIn, cOut, 0)
             S3 == switchKeys(S2, <<"el", cOut, 0>>, <<"el", cOut, 1>>, c2, switchkey, cOut)
         IN  ElementInvNTT(S3, cOut, cOut, 0)

SwitchKeysNew(S, cIn, switchkey) ==
    IF Degree(S, cIn) > 1
    THEN Fail(S, "error : ciphertext must be of degree 1 to allow key switching")
    ELSE LET cOut == NewId(S)
             S1 == NewCiphertext(S, 1)
             S2 == ElementNTT(S1, cIn, cOut, 0)
             S3 == IF Valid(S2, <<"el", cIn, 1>>)
                   THEN switchKeys(S2, <<"el", cOut, 0>>, <<"el", cOut, 1>>, <<"el", cIn, 1>>,
                                   switchkey, cOut)
                   ELSE Panic(S2)
         IN  ElementInvNTT(S3, cOut, cOut, 0)

\* ------------------------------------------------------------------ rotations

\* bfvElement.Copy: el.Copy(target) copies the polynomials and the NTT flag of
\* el onto target; elements of different degrees are refused.
RECURSIVE ElementCopyLoop(_, _, _, _)
ElementCopyLoop(S, el, target, i) ==
    IF i >= ValueLen(S, el) THEN S
    ELSE ElementCopyLoop(PolyCopy(S, <<"el", el, i>>, <<"el", target, i>>), el, target, i + 1)

ElementCopy(S, el, target) ==
    IF S.ret # "ok" THEN S
    ELSE IF Degree(S, el) # Degree(S, target) THEN Fail(S, "copy : degrees do not match")
    ELSE LET S1 == ElementCopyLoop(S, el, target, 0)
         IN  [S1 EXCEPT !.heap[target].isNTT = S.heap[el].isNTT]

\* ring.PermuteNTT(src, g, dst) when ntt, context.Permute(src, g, dst) otherwise.
PermuteTo(S, ntt, src, g, dst) ==
    Emit(Store(S, {src}, dst,
               IF ntt THEN PermuteNTT(Get(S, src), g) ELSE Permute(contextQ, Get(S, src), g)),
         <<"perm", g, src, dst>>)

NTTTo(S, src, dst) == Store(S, {src}, dst, NTT(contextQ, Get(S, src)))

InvNTTTo(S, src, dst) == Store(S, {src}, dst, InvNTT(contextQ, Get(S, src)))

\* A missing entry of a key map is nil.
KeyAt(m, k) == IF k \in DOMAIN m THEN m[k] ELSE NilKey

RECURSIVE hammingWeight64(_)
hammingWeight64(x) == IF x = 0 THEN 0 ELSE (x % 2) + hammingWeight64(x \div 2)

RECURSIVE Pow2RotLoop(_, _, _, _, _, _, _)
Pow2RotLoop(S, c0, generator, k, evakey_rot_col, c1, evakey_index) ==
    IF k <= 0 \/ S.ret # "ok" THEN S
    ELSE LET p0 == <<"pp", 0, 0>>
             p1 == <<"pp", 0, 1>>
             p2 == <<"pp", 0, 2>>
             v0 == <<"el", c1, 0>>
             v1 == <<"el", c1, 1>>
             S1 == IF k % 2 = 1
                   THEN IF Degree(S, c0) = 0
                        THEN ContextCopy(PermuteTo(S, TRUE, v0, generator, p0), p0, v0)
                        ELSE LET T1 == PermuteTo(S, TRUE, v0, generator, p0)
                                 T2 == PermuteTo(T1, TRUE, v1, generator, p1)
                                 T3 == ContextCopy(T2, p0, v0)
                                 T4 == ContextCopy(T3, p1, v1)
                                 T5 == InvNTTTo(T4, p1, p2)
                             IN  switchKeys(T5, p0, p1, p2, KeyAt(evakey_rot_col, evakey_index), c1)
                   ELSE S
         IN  Pow2RotLoop(S1, c0, (generator * generator) % (2 * N), k \div 2, evakey_rot_col, c1,
                         2 * evakey_index)

RECURSIVE Pow2NTTLoop(_, _, _, _)
Pow2NTTLoop(S, c0, c1, i) ==
    IF i >= ValueLen(S, c0) THEN S
    ELSE Pow2NTTLoop(NTTTo(S, <<"el", c0, i>>, <<"el", c1, i>>), c0, c1, i + 1)

RECURSIVE Pow2InvNTTLoop(_, _, _)
Pow2InvNTTLoop(S, c1, i) ==
    IF S.ret # "ok" \/ i >= ValueLen(S, c1) THEN S
    ELSE Pow2InvNTTLoop(InvNTTTo(S, <<"el", c1, i>>, <<"el", c1, i>>), c1, i + 1)

\* rotateColumnsPow2 without the closing inverse transforms.
rotateColumnsPow2_NoInvNTT(S, c0, generator, k, evakey_rot_col, c1) ==
    LET S1 == IF IsNTT(S, c0)
              THEN [ElementCopy(S, c0, c1) EXCEPT !.ret = "ok"]
              ELSE Pow2NTTLoop(S, c0, c1, 0)
    IN  Pow2RotLoop(S1, c0, generator, k, evakey_rot_col, c1, 1)

\* rotateColumnsPow2 with the key index started at 2 instead of 1.
rotateColumnsPow2_IndexFromTwo(S, c0, generator, k, evakey_rot_col, c1) ==
    LET S1 == IF IsNTT(S, c0)
              THEN [ElementCopy(S, c0, c1) EXCEPT !.ret = "ok"]
              ELSE Pow2NTTLoop(S, c0, c1, 0)
        S2 == Pow2RotLoop(S1, c0, generator, k, evakey_rot_col, c1, 2)
    IN  IF S2.ret = "ok" /\ ~IsNTT(S2, c0) THEN Pow2InvNTTLoop(S2, c1, 0) ELSE S2

\* The error of c0.Copy(c1) is dropped.
rotateColumnsPow2(S, c0, generator, k, evakey_rot_col, c1) ==
    LET S1 == IF IsNTT(S, c0)
              THEN [ElementCopy(S, c0, c1) EXCEPT !.ret = "ok"]
              ELSE Pow2NTTLoop(S, c0, c1, 0)
        S2 == Pow2RotLoop(S1, c0, generator, k, evakey_rot_col, c1, 1)
    IN  IF S2.ret = "ok" /\ ~IsNTT(S2, c0) THEN Pow2InvNTTLoop(S2, c1, 0) ELSE S2

rotateColumnsLPow2(S, c0, k, evakey, c1) ==
    rotateColumnsPow2(Emit(S, <<"path", "L", k>>), c0, gen, k, evakey.evakey_rot_col_L, c1)

\* The right rotation driven by the generator of the left rotations.
rotateColumnsRPow2_LeftGen(S, c0, k, evakey, c1) ==
    rotateColumnsPow2(Emit(S, <<"path", "R", k>>), c0, gen, k, evakey.evakey_rot_col_R, c1)

rotateColumnsRPow2(S, c0, k, evakey, c1) ==
    rotateColumnsPow2(Emit(S, <<"path", "R", k>>), c0, genInv, k, evakey.evakey_rot_col_R, c1)

\* has_pow2_rotations: L and R keys present for every power of two below n/2.
RECURSIVE HasPow2Rotations(_, _)
HasPow2Rotations(evakey, i) ==
    IF i >= N \div 2 THEN TRUE
    ELSE IF IsNilKey(KeyAt(evakey.evakey_rot_col_L, i)) \/ IsNilKey(KeyAt(evakey.evakey_rot_col_R, i))
    THEN FALSE
    ELSE HasPow2Rotations(evakey, 2 * i)

\* A tie of the two Hamming weights sent to the right.
Pow2Direction_TieRight(k) ==
    IF hammingWeight64(k) < hammingWeight64((N \div 2) - k) THEN "L" ELSE "R"

\* hammingWeight64(k) <= hammingWeight64(n/2 - k): left by k, else right by n/2 - k.
Pow2Direction(k) ==
    IF hammingWeight64(k) <= hammingWeight64((N \div 2) - k) THEN "L" ELSE "R"

\* Degree 0: the permutation alone.
RotateColumnsDegreeZero(S, c0, k, c1) ==
    LET g == galElRotColLeft[k]
    IN  IF c1 # c0
        THEN PermuteTo(S, IsNTT(S, c0), <<"el", c0, 0>>, g, <<"el", c1, 0>>)
        ELSE ContextCopy(PermuteTo(S, IsNTT(S, c0), <<"el", c0, 0>>, g, <<"pp", 0, 0>>),
                         <<"pp", 0, 0>>, <<"el", c1, 0>>)

\* Degree 1 with the key of this very rotation.
RotateColumnsSpecific(S, c0, k, evakey, c1) ==
    LET g == galElRotColLeft[k]
        key == KeyAt(evakey.evakey_rot_col_L, k)
        p0 == <<"pp", 0, 0>>
        p1 == <<"pp", 0, 1>>
        v0 == <<"el", c1, 0>>
        v1 == <<"el", c1, 1>>
        S0 == Emit(S, <<"path", "specific", k>>)
    IN  IF IsNTT(S, c0)
        THEN LET T1 == PermuteTo(S0, TRUE, <<"el", c0, 0>>, g, p0)
                 T2 == PermuteTo(T1, TRUE, <<"el", c0, 1>>, g, p1)
                 T3 == ContextCopy(T2, p0, v0)
                 T4 == ContextCopy(T3, p1, v1)
                 T5 == InvNTTTo(T4, p1, p1)
             IN  switchKeys(T5, v0, v1, p1, key, c1)
        ELSE LET T1 == PermuteTo(S0, FALSE, <<"el", c0, 0>>, g, p0)
                 T2 == PermuteTo(T1, FALSE, <<"el", c0, 1>>, g, p1)
                 T3 == NTTTo(T2, p0, v0)
                 T4 == NTTTo(T3, p1, v1)
                 T5 == switchKeys(T4, v0, v1, p1, key, c1)
                 T6 == InvNTTTo(T5, v0, v0)
             IN  InvNTTTo(T6, v1, v1)

RotateColumns(S, op, k0, evakey, opOut) ==
    LET c0 == op
        c1 == opOut
        k == k0 % (N \div 2)
    IN  IF k = 0
        THEN IF c0 # c1 THEN ElementCopy(S, c0, c1) ELSE S
        ELSE IF Degree(S, c1) # Degree(S, c0)
        THEN Fail(S, "cannot rotate -> receiver degree doesn't match input degree ")
        ELSE IF Degree(S, c0) > 1
        THEN Fail(S, "cannot rotate -> input and or output degree not 0 or 1")
        ELSE IF Degree(S, c0) = 0
        THEN RotateColumnsDegreeZero(S, c0, k, c1)
        ELSE IF ~IsNilKey(KeyAt(evakey.evakey_rot_col_L, k))
        THEN RotateColumnsSpecific(S, c0, k, evakey, c1)
        ELSE IF HasPow2Rotations(evakey, 1)
        THEN IF Pow2Direction(k) = "L"
             THEN rotateColumnsLPow2(S, c0, k, evakey, c1)
             ELSE rotateColumnsRPow2(S, c0, (N \div 2) - k, evakey, c1)
        ELSE Fail(S, "error : specific rotation and pow2 rotations have not been generated")

RotateRowsDegreeZero(S, c0, c1) ==
    IF c0 # c1
    THEN PermuteTo(S, IsNTT(S, c0), <<"el", c0, 0>>, galElRotRow, <<"el", c1, 0>>)
    ELSE ContextCopy(PermuteTo(S, IsNTT(S, c0), <<"el", c0, 0>>, galElRotRow, <<"pp", 0, 0>>),
                     <<"pp", 0, 0>>, <<"el", c1, 0>>)

RotateRowsDegreeOne(S, c0, evakey, c1) ==
    LET g == galElRotRow
        key == evakey.evakey_rot_row
        p0 == <<"pp", 0, 0>>
        p1 == <<"pp", 0, 1>>
        i0 == <<"el", c0, 0>>
        i1 == <<"el", c0, 1>>
        v0 == <<"el", c1, 0>>
        v1 == <<"el", c1, 1>>
    IN  IF IsNTT(S, c0)
        THEN IF c0 # c1
             THEN LET T1 == PermuteTo(S, TRUE, i0, g, v0)
                      T2 == PermuteTo(T1, TRUE, i1, g, v1)
                      T3 == InvNTTTo(T2, v1, p1)
                  IN  switchKeys(T3, v0, v1, p1, key, c1)
             ELSE LET T1 == PermuteTo(S, TRUE, i0, g, p0)
                      T2 == PermuteTo(T1, TRUE, i1, g, p1)
                      T3 == ContextCopy(T2, p0, v0)
                      T4 == ContextCopy(T3, p1, v1)
                      T5 == InvNTTTo(T4, p1, p1)
                  IN  switchKeys(T5, v0, v1, p1, key, c1)
        ELSE IF c0 # c1
             THEN LET T1 == PermuteTo(S, FALSE, i0, g, v0)
                      T2 == PermuteTo(T1, FALSE, i1, g, v1)
                      T3 == ContextCopy(T2, v1, p1)
                      T4 == NTTTo(T3, v0, v0)
                      T5 == NTTTo(T4, v1, v1)
                      T6 == switchKeys(T5, v0, v1, p1, key, c1)
                      T7 == InvNTTTo(T6, v0, v0)
                  IN  InvNTTTo(T7, v1, v1)
             ELSE LET T1 == PermuteTo(S, FALSE, i0, g, p0)
                      T2 == PermuteTo(T1, FALSE, i1, g, p1)
                      T3 == NTTTo(T2, p0, v0)
                      T4 == NTTTo(T3, p1, v1)
                      T5 == switchKeys(T4, v0, v1, p1, key, c1)
                      T6 == InvNTTTo(T5, v0, v0)
                  IN  InvNTTTo(T6, v1, v1)

RotateRows(S, op, evakey, opOut) ==
    LET c0 == op
        c1 == opOut
    IN  IF Degree(S, c1) # Degree(S, c0)
        THEN Fail(S, "cannot rotate -> receiver degree doesn't match input degree ")
        ELSE IF Degree(S, c0) > 1
        THEN Fail(S, "cannot rotate -> input and or output degree not 0 or 1")
        ELSE IF IsNilKey(evakey.evakey_rot_row)
        THEN Fail(S, "error : rows rotation key not generated")
        ELSE IF Degree(S, c0) = 0
        THEN RotateRowsDegreeZero(S, c0, c1)
        ELSE RotateRowsDegreeOne(S, c0, evakey, c1)

\* evaluator.Add(a, b, out) with its error dropped; a failed machine is left alone.
AddDropped(S, a, b, out) ==
    IF S.ret # "ok" THEN S ELSE [BinaryOp(S, "Add", a, b, out) EXCEPT !.ret = "ok"]

\* for i := 1; i < n>>1; i <<= 1 { RotateColumns(c1, i, evakey, cTmp); Add(cTmp, c1, c1) }
\* An error of RotateColumns is returned, the error of Add is dropped.
RECURSIVE InnerSumLoop(_, _, _, _, _)
InnerSumLoop(S, evakey, c1, cTmp, i) ==
    IF S.ret # "ok" \/ i >= N \div 2 THEN S
    ELSE InnerSumLoop(AddDropped(RotateColumns(S, c1, i, evakey, cTmp), cTmp, c1, c1),
                      evakey, c1, cTmp, 2 * i)

\* The row rotation that follows the loop, unless the loop returned an error.
InnerSumRows(S, evakey, c1, cTmp) ==
    IF S.ret = "ok" THEN RotateRows(S, c1, evakey, cTmp) ELSE S

\* InnerSum(c0, evakey, c1): the copy is written c1.Copy(c0).
InnerSum(S, c0, evakey, c1) ==
    IF Degree(S, c0) # 1
    THEN Fail(S, "error : ciphertext must be of degree 1 to allow Galois Auotomorphism (required for inner sum)")
    ELSE IF Degree(S, c1) # 1
    THEN Fail(S, "error : receiver ciphertext must be of degree 1 to allow Galois Automorphism (required for inner sum)")
    ELSE LET cTmp == NewId(S)
             S0 == NewCiphertext(S, 1)
             S1 == IF c0 # c1 THEN ElementCopy(S0, c1, c0) ELSE S0
         IN  AddDropped(InnerSumRows(InnerSumLoop(S1, evakey, c1, cTmp, 1), evakey, c1, cTmp),
                        c1, cTmp, c1)

\* ------------------------------------------------------------------ callers

\* The coefficients of value[i] of the caller's element id, family seed.
Sample(seed, id, i, ntt) ==
    [c |-> [u \in Idx |->
              (1 + 29 * seed + 7 * id + 11 * i + (u + 1) * (u + 3 * id + 2 * i + seed) + u * u * u)
                % contextQ.mod],
     d |-> IF ntt THEN "ntt" ELSE "coef"]

Seeds == 1..NumSeeds

\* Element id of degree deg.
Operand(seed, id, deg, ntt) ==
    [value |-> [i \in 0..deg |-> Sample(seed, id, i, ntt)], isNTT |-> ntt]

\* The caller's elements x = 1, y = 2, z = 3 of degrees dx, dy, dz.
Operands(seed, dx, dy, dz, ntt) ==
    [id \in 1..3 |-> Operand(seed, id, IF id = 1 THEN dx ELSE IF id = 2 THEN dy ELSE dz, ntt)]

NoKeys == [evakey |-> <<>>]

NoCall == [op |-> "none"]

Snapshot(h, pp, cp) == [heap |-> h, pp |-> pp, cp |-> cp]

Init ==
    /\ heap = <<>>
    /\ polypool = [i \in 0..3 |-> ZeroPoly]
    /\ ctxpool = [e \in 0..2 |-> [i \in 0..(PoolLen - 1) |-> ZeroPoly]]
    /\ keys = NoKeys
    /\ pre = Snapshot(<<>>, polypool, ctxpool)
    /\ call = NoCall
    /\ ret = "none"
    /\ log = <<>>
    /\ first = [pre |-> pre, call |-> NoCall, log |-> <<>>]
    /\ pc = "idle"

\* The call c, made on the elements h with keys ks, took the machine to S.
Return(h, ks, c, S, next) ==
    /\ heap' = S.heap
    /\ polypool' = S.pp
    /\ ctxpool' = S.cp
    /\ keys' = ks
    /\ pre' = Snapshot(h, polypool, ctxpool)
    /\ call' = c
    /\ ret' = S.ret
    /\ log' = S.log
    /\ first' = IF next = "rot2" THEN [pre |-> pre, call |-> call, log |-> log] ELSE first
    /\ pc' = next

\* The arguments (op0, op1, opOut) of a binary call: distinct elements, the
\* receiver or the operands aliased, or one of them nil.
BinaryArgs ==
    {<<1, 2, 3>>, <<1, 1, 3>>, <<1, 2, 1>>, <<1, 2, 2>>, <<1, 1, 1>>,
     <<Nil, 2, 3>>, <<1, Nil, 3>>, <<1, 2, Nil>>}

\* The receiver is one of the operands.
AliasedArgs == {<<1, 2, 1>>, <<1, 2, 2>>, <<1, 1, 1>>}

CallBinaryWith(evaluate, args) ==
    /\ pc = "idle"
    /\ \E seed \in Seeds, dx, dy, dz \in 0..MaxDeg, a \in args :
         LET h == Operands(seed, dx, dy, dz, FALSE)
         IN  Return(h, NoKeys,
                    [op |-> evaluate, op0 |-> a[1], op1 |-> a[2], opOut |-> a[3]],
                    BinaryOp(Machine(h, polypool, ctxpool), evaluate, a[1], a[2], a[3]),
                    "done")

CallBinary(evaluate) == CallBinaryWith(evaluate, BinaryArgs)

EvaluatorAdd == CallBinary("Add")

EvaluatorAddNoMod == CallBinary("AddNoMod")

EvaluatorSub == CallBinary("Sub")

EvaluatorSubNoMod == CallBinary("SubNoMod")

Scalars == {0, 3, 100}

CallUnaryWith(evaluate, scalars, ins, outs) ==
    /\ pc = "idle"
    /\ \E seed \in Seeds, dx, dz \in 0..MaxDeg, op \in ins, opOut \in outs,
          scalar \in scalars :
         LET h == Operands(seed, dx, 0, dz, FALSE)
         IN  Return(h, NoKeys,
                    [op |-> evaluate, op0 |-> op, op1 |-> Nil, opOut |-> opOut, scalar |-> scalar],
                    UnaryOp(Machine(h, polypool, ctxpool), evaluate, scalar, op, opOut),
                    "done")

CallUnary(evaluate, scalars) == CallUnaryWith(evaluate, scalars, {Nil, 1}, {Nil, 1, 3})

EvaluatorNeg == CallUnary("Neg", {0})

EvaluatorReduce == CallUnary("Reduce", {0})

EvaluatorMulScalar == CallUnary("MulScalar", Scalars)

CallMulWith(args) ==
    /\ pc = "idle"
    /\ \E seed \in Seeds, dx, dy \in 0..MaxDeg, a \in args :
       \E slack \in (IF a = <<1, 2, 3>> \/ a = <<1, 1, 3>> THEN {-1, 0, 1} ELSE {0}) :
         LET need == (IF a[1] = 2 THEN dy ELSE dx) + (IF a[2] = 1 THEN dx ELSE dy)
             h == Operands(seed, dx, dy, Max(0, need + slack), FALSE)
         IN  Return(h, NoKeys,
                    [op |-> "Mul", op0 |-> a[1], op1 |-> a[2], opOut |-> a[3]],
                    Mul(Machine(h, polypool, ctxpool), a[1], a[2], a[3]),
                    "done")

EvaluatorMul == CallMulWith(BinaryArgs)

NextArith ==
    \/ EvaluatorAdd
    \/ EvaluatorAddNoMod
    \/ EvaluatorSub
    \/ EvaluatorSubNoMod
    \/ EvaluatorNeg
    \/ EvaluatorReduce
    \/ EvaluatorMulScalar
    \/ EvaluatorMul

SpecArith == Init /\ [][NextArith]_vars

\* ------------------------------------------------------------- key material

\* Bit width of the digits of the switching keys (bitDecomp).
BitDecomp == 4

\* Number of base-2^bitDecomp digits of a residue modulo Q.
RECURSIVE DigitsFrom(_)
DigitsFrom(n) == IF Pow2(n * BitDecomp) >= contextQ.mod THEN n ELSE DigitsFrom(n + 1)

NumDigits == DigitsFrom(1)

\* Polynomial h (0 or 1) of digit j of the switching key kid, in NTT form.
KeySample(kid, j, h) ==
    [c |-> [u \in Idx |-> (3 + 5 * kid + 13 * j + 17 * h + (u + 1) * (u + kid + 2 * j + h)) % contextQ.mod],
     d |-> "ntt"]

SwitchingKey(kid) ==
    [name |-> kid, bitDecomp |-> BitDecomp,
     evakey |-> [i \in 0..(NumModuli - 1) |->
                   [j \in 0..(NumDigits - 1) |-> <<KeySample(kid, j, 0), KeySample(kid, j, 1)>>]]]

\* Key names: 10+k and 20+k the left and right rotations by k, 30 the row
\* rotation, 40+d the relinearization key of degree d+2, 50 a key switch.
EvaluationKey(n) == [evakey |-> [d \in 0..(n - 1) |-> SwitchingKey(40 + d)]]

RotationKeys(L, R, row) ==
    [evakey_rot_col_L |-> [k \in L |-> SwitchingKey(10 + k)],
     evakey_rot_col_R |-> [k \in R |-> SwitchingKey(20 + k)],
     evakey_rot_row |-> IF row THEN SwitchingKey(30) ELSE NilKey]

\* The powers of two below N/2.
Pow2Below == {i \in 1..(N \div 2 - 1) : \E b \in 0..N : i = Pow2(b)}

\* The key sets a caller may hold: none, the powers of two in both directions,
\* those and the specific keys 3 and 6, one specific key, the left powers of
\* two only, one left key with the right powers of two; with the row key, and
\* the first two without it.
RotKeyConfigs ==
    {RotationKeys(c[1], c[2], TRUE) :
       c \in {<<{}, {}>>, <<Pow2Below, Pow2Below>>, <<Pow2Below \cup {3, 6}, Pow2Below>>,
              <<{3}, {}>>, <<Pow2Below, {}>>, <<{2}, Pow2Below>>}}
    \cup {RotationKeys({}, {}, FALSE), RotationKeys(Pow2Below, Pow2Below, FALSE)}

\* The secret key: a ternary polynomial (coefficients 0, 1, -1).
SecretKey ==
    [c |-> [u \in Idx |-> CASE (u * u + u \div 3) % 3 = 0 -> 0
                            [] (u * u + u \div 3) % 3 = 1 -> 1
                            [] OTHER -> contextQ.mod - 1],
     d |-> "coef"]

SecretNTT == NTT(contextQ, SecretKey)

\* Digit j of a switching key from skIn to the secret key, without noise: the
\* pair (b, a) in NTT and Montgomery form with b = -a*sk + w^j * (skIn - sk),
\* w = 2^bitDecomp; a is KeySample(kid, j, 1).
GenKeyPair(kid, j, skIn) ==
    LET a == KeySample(kid, j, 1)
        wj == (contextQ.R * (Pow2(j * BitDecomp) % contextQ.mod)) % contextQ.mod
        b == [c |-> [u \in Idx |->
                       ((contextQ.mod - ((a.c[u] * SecretNTT.c[u]) % contextQ.mod))
                        + wj * ((skIn.c[u] + contextQ.mod - SecretNTT.c[u]) % contextQ.mod))
                         % contextQ.mod],
              d |-> "ntt"]
    IN  <<b, a>>

GenSwitchingKey(kid, skIn) ==
    [name |-> kid, bitDecomp |-> BitDecomp,
     evakey |-> [i \in 0..(NumModuli - 1) |->
                   [j \in 0..(NumDigits - 1) |-> GenKeyPair(kid, j, skIn)]]]

\* The key of the automorphism X -> X^g switches from the permuted secret key.
GenGaloisKey(kid, g) == GenSwitchingKey(kid, NTT(contextQ, Permute(contextQ, SecretKey, g)))

\* Rotation keys as the key generator makes them: left keys for L, right keys
\* for R, the row key when row.
GenRotationKeys(L, R, row) ==
    [evakey_rot_col_L |-> [k \in L |-> GenGaloisKey(10 + k, galElRotColLeft[k])],
     evakey_rot_col_R |-> [k \in R |-> GenGaloisKey(20 + k, galElRotColLeft[(N \div 2) - k])],
     evakey_rot_row |-> IF row THEN GenGaloisKey(30, galElRotRow) ELSE NilKey]

\* The key sets handed to InnerSum: the left powers of two and the row key,
\* those and the right ones, and sets with the row key or the key of 2 missing.
InnerSumKeyConfigs ==
    {GenRotationKeys(Pow2Below, {}, TRUE), GenRotationKeys(Pow2Below, Pow2Below, TRUE),
     GenRotationKeys(Pow2Below, {}, FALSE), GenRotationKeys(Pow2Below \ {2}, {}, TRUE)}

\* A switching key of n digits of beta bits: switchKeys makes one accumulation
\* per (modulus, digit) pair of the key, len(evakey.evakey[i]) for modulus i.
SwitchingKeyOf(kid, n, beta) ==
    [name |-> kid, bitDecomp |-> beta,
     evakey |-> [i \in 0..(NumModuli - 1) |->
                   [j \in 0..(n - 1) |-> <<KeySample(kid, j, 0), KeySample(kid, j, 1)>>]]]

\* ------------------------------------------------- relinearization and key switch

EvaluatorRelinearize ==
    /\ pc = "idle"
    /\ \E seed \in Seeds, dx, dz, n \in 0..MaxDeg, cOut \in {1, 3} :
         LET h == Operands(seed, dx, 0, dz, FALSE)
             evakey == EvaluationKey(n)
         IN  Return(h, evakey,
                    [op |-> "Relinearize", op0 |-> 1, opOut |-> cOut],
                    Relinearize(Machine(h, polypool, ctxpool), 1, evakey, cOut),
                    "done")

EvaluatorRelinearizeNew ==
    /\ pc = "idle"
    /\ \E seed \in Seeds, dx, n \in 0..MaxDeg :
         LET h == Operands(seed, dx, 0, 0, FALSE)
             evakey == EvaluationKey(n)
             S == RelinearizeNew(Machine(h, polypool, ctxpool), 1, evakey)
         IN  Return(h, evakey,
                    [op |-> "RelinearizeNew", op0 |-> 1,
                     opOut |-> IF DOMAIN S.heap = DOMAIN h THEN Nil ELSE NewId(Machine(h, polypool, ctxpool))],
                    S, "done")

CallSwitchKeysWith(outs) ==
    /\ pc = "idle"
    /\ \E seed \in Seeds, dx, dz \in 0..MaxDeg, cOut \in outs :
         LET h == Operands(seed, dx, 0, dz, FALSE)
             switchkey == SwitchingKey(50)
         IN  Return(h, switchkey,
                    [op |-> "SwitchKeys", op0 |-> 1, opOut |-> cOut],
                    SwitchKeys(Machine(h, polypool, ctxpool), 1, switchkey, cOut),
                    "done")

EvaluatorSwitchKeys == CallSwitchKeysWith({1, 3})

EvaluatorSwitchKeysNew ==
    /\ pc = "idle"
    /\ \E seed \in Seeds, dx \in 0..MaxDeg :
         LET h == Operands(seed, dx, 0, 0, FALSE)
             switchkey == SwitchingKey(50)
             S == SwitchKeysNew(Machine(h, polypool, ctxpool), 1, switchkey)
         IN  Return(h, switchkey,
                    [op |-> "SwitchKeysNew", op0 |-> 1,
                     opOut |-> IF DOMAIN S.heap = DOMAIN h THEN Nil ELSE NewId(Machine(h, polypool, ctxpool))],
                    S, "done")

NextKeys ==
    \/ EvaluatorRelinearize
    \/ EvaluatorRelinearizeNew
    \/ EvaluatorSwitchKeys
    \/ EvaluatorSwitchKeysNew

SpecKeys == Init /\ [][NextKeys]_vars

\* ------------------------------------------------------------- rotation calls

\* Degrees (input, receiver) handed to a rotation.
RotDegrees == {<<0, 0>>, <<1, 1>>, <<2, 2>>, <<1, 0>>}

\* Rotation amounts: 0, every k below N/2, N/2 and N/2+1 (reduced by the mask).
RotAmounts == 0..(N \div 2 + 1)

CallRotateColumnsWith(outs) ==
    /\ pc = "idle"
    /\ \E seed \in Seeds, dg \in RotDegrees, ntt \in BOOLEAN, k \in RotAmounts,
          evakey \in RotKeyConfigs, opOut \in outs :
         LET h == Operands(seed, dg[1], 0, dg[2], ntt)
         IN  Return(h, evakey,
                    [op |-> "RotateColumns", op0 |-> 1, opOut |-> opOut, k |-> k],
                    RotateColumns(Machine(h, polypool, ctxpool), 1, k, evakey, opOut),
                    "rot1")

EvaluatorRotateColumns == CallRotateColumnsWith({1, 3})

CallRotateRowsWith(outs) ==
    /\ pc = "idle"
    /\ \E seed \in Seeds, dg \in RotDegrees, ntt \in BOOLEAN,
          evakey \in RotKeyConfigs, opOut \in outs :
         LET h == Operands(seed, dg[1], 0, dg[2], ntt)
         IN  Return(h, evakey,
                    [op |-> "RotateRows", op0 |-> 1, opOut |-> opOut],
                    RotateRows(Machine(h, polypool, ctxpool), 1, evakey, opOut),
                    "rot1")

EvaluatorRotateRows == CallRotateRowsWith({1, 3})

\* A second column rotation, of the result of the first, with the same keys.
EvaluatorRotateColumnsAgain ==
    /\ pc = "rot1" /\ ret = "ok" /\ call.op = "RotateColumns"
    /\ \E k \in 1..(N \div 2 - 1), opOut \in {1, 3} :
         Return(heap, keys,
                [op |-> "RotateColumns", op0 |-> call.opOut, opOut |-> opOut, k |-> k],
                RotateColumns(Machine(heap, polypool, ctxpool), call.opOut, k, keys, opOut),
                "rot2")

\* A second row rotation, of the result of the first.
EvaluatorRotateRowsAgain ==
    /\ pc = "rot1" /\ ret = "ok" /\ call.op = "RotateRows"
    /\ \E opOut \in {1, 3} :
         Return(heap, keys,
                [op |-> "RotateRows", op0 |-> call.opOut, opOut |-> opOut],
                RotateRows(Machine(heap, polypool, ctxpool), call.opOut, keys, opOut),
                "rot2")

NextRot ==
    \/ EvaluatorRotateColumns
    \/ EvaluatorRotateRows
    \/ EvaluatorRotateColumnsAgain
    \/ EvaluatorRotateRowsAgain

SpecRot == Init /\ [][NextRot]_vars

\* ------------------------------------------------------- long key switches

\* SwitchKeys with keys of 0..MaxDigits one-bit digits.
EvaluatorSwitchKeysLong ==
    /\ pc = "idle"
    /\ \E seed \in Seeds, dx, dz \in 0..MaxDeg, n \in 0..MaxDigits, cOut \in {1, 3} :
         LET h == Operands(seed, dx, 0, dz, FALSE)
             switchkey == SwitchingKeyOf(50, n, 1)
         IN  Return(h, switchkey,
                    [op |-> "SwitchKeys", op0 |-> 1, opOut |-> cOut],
                    SwitchKeys(Machine(h, polypool, ctxpool), 1, switchkey, cOut),
                    "done")

NextSwitch ==
    \/ EvaluatorSwitchKeysLong
    \/ EvaluatorSwitchKeys

SpecSwitch == Init /\ [][NextSwitch]_vars

\* ------------------------------------------------- power-of-two rotations

\* The complete power-of-two keys, as arbitrary polynomials and as the key
\* generator makes them.
Pow2KeyConfigs ==
    {RotationKeys(Pow2Below, Pow2Below, TRUE), GenRotationKeys(Pow2Below, Pow2Below, TRUE)}

\* rotateColumnsLPow2 and rotateColumnsRPow2 as RotateColumns calls them: on a
\* degree-1 element and receiver, with complete keys, by any amount below N/2.
CallRotateColumnsPow2(dir) ==
    /\ pc = "idle"
    /\ \E seed \in Seeds, ntt \in BOOLEAN, k \in 1..(N \div 2 - 1),
          evakey \in Pow2KeyConfigs, c1 \in {1, 3} :
         LET h == Operands(seed, 1, 0, 1, ntt)
             S == Machine(h, polypool, ctxpool)
         IN  Return(h, evakey,
                    [op |-> "rotateColumnsPow2", dir |-> dir, op0 |-> 1, opOut |-> c1, k |-> k],
                    IF dir = "L" THEN rotateColumnsLPow2(S, 1, k, evakey, c1)
                    ELSE rotateColumnsRPow2(S, 1, k, evakey, c1),
                    "done")

RotateColumnsLPow2 == CallRotateColumnsPow2("L")

RotateColumnsRPow2 == CallRotateColumnsPow2("R")

NextPow2 ==
    \/ RotateColumnsLPow2
    \/ RotateColumnsRPow2

SpecPow2 == Init /\ [][NextPow2]_vars

\* ------------------------------------------------------------------ inner sum

EvaluatorInnerSum ==
    /\ pc = "idle"
    /\ \E seed \in Seeds, dx, dz \in 0..MaxDeg, ntt \in BOOLEAN,
          evakey \in InnerSumKeyConfigs, c1 \in {1, 3} :
         LET h == Operands(seed, dx, 0, dz, ntt)
         IN  Return(h, evakey,
                    [op |-> "InnerSum", op0 |-> 1, opOut |-> c1],
                    InnerSum(Machine(h, polypool, ctxpool), 1, evakey, c1),
                    "done")

NextInner ==
    \/ EvaluatorInnerSum
    \/ EvaluatorRotateColumns

SpecInner == Init /\ [][NextInner]_vars

\* ---------------------------------------------------- calls into an aliased receiver

AliasedBinary == \E evaluate \in BinaryOps : CallBinaryWith(evaluate, AliasedArgs)

AliasedUnary ==
    \/ CallUnaryWith("Neg", {0}, {1}, {1})
    \/ CallUnaryWith("Reduce", {0}, {1}, {1})
    \/ CallUnaryWith("MulScalar", Scalars, {1}, {1})

AliasedMul == CallMulWith(AliasedArgs)

AliasedSwitchKeys == CallSwitchKeysWith({1})

AliasedRotateColumns == CallRotateColumnsWith({1})

AliasedRotateRows == CallRotateRowsWith({1})

NextAlias ==
    \/ AliasedBinary
    \/ AliasedUnary
    \/ AliasedMul
    \/ AliasedSwitchKeys
    \/ AliasedRotateColumns
    \/ AliasedRotateRows

SpecAlias == Init /\ [][NextAlias]_vars

\* Every call of the evaluator.
Next == NextArith \/ NextKeys \/ NextRot

Spec == Init /\ [][Next]_vars

\* --------------------------------------------------------------------- claims

PreValue(id) == pre.heap[id].value

PreDegree(id) == Cardinality(DOMAIN pre.heap[id].value) - 1

\* value[i] of an operand zero-padded above its degree.
Padded(id, i) == IF i \in DOMAIN PreValue(id) THEN PreValue(id)[i] ELSE ZeroPoly

BinaryDone == call.op \in BinaryOps /\ ret = "ok"

\* C1: after a successful Add, AddNoMod, Sub or SubNoMod, Out.value[i] is
\* op(A.value[i], B.value[i]) for every i up to the smaller degree and is a copy
\* of value[i] of the higher-degree operand above it; for the two additions this
\* is the sum of the operands after zero-padding the shorter one.
C1_BinaryIndexwiseAndCopy ==
    BinaryDone =>
        LET dA == PreDegree(call.op0)
            dB == PreDegree(call.op1)
            O == heap[call.opOut].value
        IN  /\ \A i \in 0..Min(dA, dB) :
                 O[i] = EvalBin(call.op, PreValue(call.op0)[i], PreValue(call.op1)[i])
            /\ \A i \in (Min(dA, dB) + 1)..Max(dA, dB) :
                 O[i] = PreValue(IF dA > dB THEN call.op0 ELSE call.op1)[i]
            /\ call.op \in {"Add", "AddNoMod"} =>
                 \A i \in 0..Max(dA, dB) :
                    O[i].c = EvalBin(call.op, Padded(call.op0, i), Padded(call.op1, i)).c

\* The (deg-3, deg-1) addition into a distinct receiver has been made.
C1_Witness ==
    /\ BinaryDone
    /\ call.op = "Add"
    /\ PreDegree(call.op0) = 3
    /\ PreDegree(call.op1) = 1
    /\ call.opOut = 3
    /\ heap[3].value[3] = pre.heap[1].value[3]
    /\ heap[3].value[3] # pre.heap[3].value[3]

\* Mul passed its checks: no nil operand, receiver of degree >= a + b.
MulAccepted ==
    /\ call.op = "Mul"
    /\ call.op0 # Nil /\ call.op1 # Nil /\ call.opOut # Nil
    /\ PreDegree(call.opOut) >= PreDegree(call.op0) + PreDegree(call.op1)

\* The operand polynomial as the tensoring sees it: extended to QP, in NTT form.
Lifted(id, i) == NTT(contextQP, ExtendBasis(PreValue(id)[i]))

\* Coefficient u of sum_{i+j=k} A_i * B_j modulo QP.
TensorTerm(k, u) ==
    LET a == PreDegree(call.op0)
        b == PreDegree(call.op1)
        prod == [i \in 0..a |->
                   IF k - i \in 0..b
                   THEN (Lifted(call.op0, i).c[u] * Lifted(call.op1, k - i).c[u]) % contextQP.mod
                   ELSE 0]
    IN  SumTo(prod, a) % contextQP.mod

\* The tmpCout the tensoring left, if the call got that far.
TensorEvents == {n \in 1..Len(log) : log[n][1] = "tensor"}

TensorOut == log[CHOOSE n \in TensorEvents : TRUE][2]

TensorTermsRight ==
    \A k \in 0..(PreDegree(call.op0) + PreDegree(call.op1)) :
       \A u \in Idx : TensorOut[k].c[u] % contextQP.mod = TensorTerm(k, u)

\* C2: for every pair of operands Mul accepts, distinct or identical, the
\* tensoring produces Out_k = sum_{i+j=k} A_i * B_j for every k in 0..a+b.
C2_TensorAllTerms == MulAccepted => (TensorEvents # {} /\ TensorTermsRight)

\* What the code does guarantee: the terms the tensoring delivers are the right ones.
C2_TermsRightWhenDelivered == (MulAccepted /\ TensorEvents # {}) => TensorTermsRight

\* A degree-1 by degree-2 product has been tensored.
C2_Delivered ==
    /\ MulAccepted /\ TensorEvents # {}
    /\ PreDegree(call.op0) = 1 /\ PreDegree(call.op1) = 2 /\ call.op0 # call.op1

\* The machine as it was when the last call started.
PreMachine(h) == Machine(h, pre.pp, pre.cp)

\* The caller's elements with y replaced by a distinct copy of x.
WithCopyOfX == [pre.heap EXCEPT ![2] = pre.heap[1]]

Squaring == call.op = "Mul" /\ call.op0 = 1 /\ call.op1 = 1 /\ call.opOut # Nil

\* The same product with the second operand a distinct copy c' of c.
MulWithCopy == Mul(PreMachine(WithCopyOfX), 1, 2, call.opOut)

CrossEvents == {n \in 1..Len(log) : log[n][1] = "cross"}

DiagEvents == {n \in 1..Len(log) : log[n][1] = "diag"}

IsError(r) == r \notin {"ok", "panic", "none"}

\* Elements and pools are as they were when the call started.
Untouched == heap = pre.heap /\ polypool = pre.pp /\ ctxpool = pre.cp

DegreeOrZero(id) == IF id = Nil THEN 0 ELSE PreDegree(id)

\* A binary call or Mul with a nil operand or a receiver below the minimum degree.
RefusedBinary ==
    /\ call.op \in BinaryOps \cup {"Mul"}
    /\ \/ call.op0 = Nil \/ call.op1 = Nil \/ call.opOut = Nil
       \/ DegreeOrZero(call.opOut) <
            (IF call.op = "Mul"
             THEN DegreeOrZero(call.op0) + DegreeOrZero(call.op1)
             ELSE Max(DegreeOrZero(call.op0), DegreeOrZero(call.op1)))

\* C5: Add, AddNoMod, Sub, SubNoMod and Mul called with a nil operand or a
\* receiver of too small a degree return an error value, they do not abort, and
\* leave the inputs, the receiver and the pools unchanged.
C5_NilOrSmallReceiverIsError == RefusedBinary => (IsError(ret) /\ Untouched)

\* C4: a call whose receiver is one of its inputs leaves in the receiver what
\* the same call leaves in a fresh receiver, given fresh copies of that input
\* for the receiver and for the other operand, and it ends the same way.
AliasedCall ==
    /\ call.op \in BinaryOps \cup UnaryOps \cup {"Mul", "SwitchKeys", "RotateColumns", "RotateRows"}
    /\ call.op0 # Nil /\ call.opOut # Nil
    /\ IF call.op \in BinaryOps \cup {"Mul"}
       THEN call.op1 # Nil /\ call.opOut \in {call.op0, call.op1}
       ELSE call.opOut = call.op0

\* x, y, z: the first operand, the second operand (or again the first), and
\* the receiver, each an element of its own.
FreshCopies ==
    [id \in 1..3 |->
       pre.heap[IF id = 1 THEN call.op0
                ELSE IF id = 3 THEN call.opOut
                ELSE IF call.op \in BinaryOps \cup {"Mul"} THEN call.op1 ELSE call.op0]]

UnaliasedCall ==
    LET M == PreMachine(FreshCopies)
    IN  CASE call.op \in BinaryOps -> BinaryOp(M, call.op, 1, 2, 3)
          [] call.op = "Mul" -> Mul(M, 1, 2, 3)
          [] call.op \in UnaryOps -> UnaryOp(M, call.op, call.scalar, 1, 3)
          [] call.op = "SwitchKeys" -> SwitchKeys(M, 1, keys, 3)
          [] call.op = "RotateColumns" -> RotateColumns(M, 1, call.k, keys, 3)
          [] call.op = "RotateRows" -> RotateRows(M, 1, keys, 3)

C4_AliasedReceiverSameValue ==
    AliasedCall =>
        \A T \in {UnaliasedCall} :
           /\ ret = T.ret
           /\ heap[call.opOut].value = T.heap[3].value

\* A key switch of a degree-1 element onto itself has been made.
C4_Witness ==
    /\ call.op = "SwitchKeys" /\ call.opOut = call.op0 /\ ret = "ok"
    /\ heap[1].value # pre.heap[1].value

\* C6: Relinearize and RelinearizeNew return an error, and mutate nothing, when
\* the input has degree < 2 or the key holds fewer than d-1 switching keys; in
\* every other case they return no error.
RelinCall == call.op \in {"Relinearize", "RelinearizeNew"}

RelinMustFail ==
    \/ PreDegree(call.op0) < 2
    \/ Cardinality(DOMAIN keys.evakey) < PreDegree(call.op0) - 1

C6_RelinearizeErrors ==
    RelinCall =>
        /\ IsError(ret) <=> RelinMustFail
        /\ IsError(ret) => Untouched

\* A degree-0 input has been refused by Relinearize, nothing touched.
C6_Witness ==
    /\ call.op = "Relinearize" /\ PreDegree(call.op0) = 0
    /\ IsError(ret) /\ Untouched

\* A degree-3 input has been relinearized with exactly two keys.
C6_Accepted ==
    /\ RelinCall /\ PreDegree(call.op0) = 3 /\ Cardinality(DOMAIN keys.evakey) = 2
    /\ ret = "ok" /\ Degree(Machine(heap, polypool, ctxpool), call.opOut) = 1

\* C7: SwitchKeys and SwitchKeysNew refuse every input whose degree is not 1,
\* degree 0 included, with an error and before touching any polynomial.
C7_DegreeExactlyOne ==
    (call.op \in {"SwitchKeys", "SwitchKeysNew"} /\ PreDegree(call.op0) # 1) =>
        (IsError(ret) /\ Untouched)

\* ------------------------------------------------------------------ rotations

RotColCall == call.op = "RotateColumns"

RotK == call.k % (N \div 2)

IsKs(e) == e[1] = "ks"

\* The names of the keys the call switched with, in order.
KsNames(lg) == LET ks == SelectSeq(lg, IsKs) IN [n \in 1..Len(ks) |-> ks[n][2]]

\* base + 2^b for every set bit b of k, least significant first.
RECURSIVE Pow2Names(_, _, _)
Pow2Names(base, k, index) ==
    IF k = 0 THEN <<>>
    ELSE (IF k % 2 = 1 THEN <<base + index>> ELSE <<>>) \o Pow2Names(base, k \div 2, 2 * index)

HasSpecific == RotK \in DOMAIN keys.evakey_rot_col_L

HasPow2 == Pow2Below \subseteq (DOMAIN keys.evakey_rot_col_L \cap DOMAIN keys.evakey_rot_col_R)

\* C8: on a degree-1 element and k mod N/2 # 0, RotateColumns (1) uses the
\* specific key col_L[k] in a single key switch whenever it is present, (2)
\* otherwise, with complete power-of-two keys, goes left by k when
\* popcount(k) <= popcount(N/2-k) and right by N/2-k otherwise, (3) otherwise
\* returns the keys-not-generated error and leaves the receiver unchanged.
C8_PathOrder ==
    (RotColCall /\ PreDegree(call.op0) = 1 /\ PreDegree(call.opOut) = 1 /\ RotK # 0) =>
        IF HasSpecific
        THEN ret = "ok" /\ KsNames(log) = <<10 + RotK>>
        ELSE IF HasPow2
        THEN /\ ret = "ok"
             /\ KsNames(log) =
                  IF hammingWeight64(RotK) <= hammingWeight64(N \div 2 - RotK)
                  THEN Pow2Names(10, RotK, 1)
                  ELSE Pow2Names(20, N \div 2 - RotK, 1)
        ELSE /\ ret = "error : specific rotation and pow2 rotations have not been generated"
             /\ heap[call.opOut] = pre.heap[call.opOut]

\* A rotation by 3 (popcount 2 on both sides) went left with the keys of 1 and 2.
C8_Witness ==
    /\ RotColCall /\ PreDegree(call.op0) = 1 /\ RotK = 3 /\ ~HasSpecific /\ HasPow2
    /\ ret = "ok" /\ KsNames(log) = <<11, 12>>

RotCall == call.op \in {"RotateColumns", "RotateRows"}

\* C9: after every successful rotation every polynomial of the receiver is in
\* the domain the input's polynomials were in on entry, and a distinct input
\* keeps its domain.
C9_DomainPreserved ==
    (RotCall /\ ret = "ok") =>
        LET dom == pre.heap[call.op0].value[0].d
        IN  /\ \A i \in DOMAIN heap[call.opOut].value : heap[call.opOut].value[i].d = dom
            /\ \A i \in DOMAIN heap[call.op0].value : heap[call.op0].value[i].d = dom

\* A coefficient-domain degree-1 element has been rotated right through the
\* power-of-two keys into a distinct receiver.
C9_Witness ==
    /\ RotColCall /\ ret = "ok" /\ pc = "rot1"
    /\ PreDegree(call.op0) = 1 /\ call.opOut # call.op0
    /\ pre.heap[call.op0].value[0].d = "coef"
    /\ KsNames(log) = <<21>>

\* The Galois element of the automorphism a call applied to value[0]: the
\* product modulo 2N of the elements of its permutations of value[0].
RECURSIVE GalProd(_, _)
GalProd(lg, n) ==
    IF n = 0 THEN 1
    ELSE (GalProd(lg, n - 1)
          * (IF lg[n][1] = "perm" /\ lg[n][3][1] = "el" /\ lg[n][3][3] = 0 THEN lg[n][2] ELSE 1))
         % (2 * N)

NetGal(lg) == GalProd(lg, Len(lg))

FirstK == first.call.k % (N \div 2)

\* The single rotation by k1 + k2 of the element the first call was given.
SingleRotation ==
    RotateColumns(Machine(first.pre.heap, first.pre.pp, first.pre.cp),
                  first.call.op0, FirstK + RotK, keys, first.call.opOut)

\* C10: two chained column rotations by k1 and k2 apply the automorphism the
\* single rotation by (k1+k2) mod N/2 applies, whichever key paths are taken
\* (on a degree-0 element the two results are the same polynomial); two chained
\* row rotations apply the identity.
C10_RotationGroupLaw ==
    /\ (pc = "rot2" /\ RotColCall /\ ret = "ok" /\ FirstK # 0) =>
          \A T \in {SingleRotation} :
             T.ret = "ok" =>
               /\ (NetGal(first.log) * NetGal(log)) % (2 * N) = NetGal(T.log)
               /\ NetGal(T.log) = galElRotColLeft[(FirstK + RotK) % (N \div 2)]
               /\ PreDegree(call.op0) = 0 =>
                    heap[call.opOut].value = T.heap[first.call.opOut].value
    /\ (pc = "rot2" /\ call.op = "RotateRows" /\ ret = "ok") =>
          /\ (NetGal(first.log) * NetGal(log)) % (2 * N) = 1
          /\ NetGal(log) = galElRotRow
          /\ PreDegree(call.op0) = 0 =>
               heap[call.opOut].value = first.pre.heap[first.call.op0].value

\* A left power-of-two rotation by 3 followed by a right one by 6, which a
\* single rotation by 1 matches.
C10_Witness ==
    /\ pc = "rot2" /\ RotColCall /\ ret = "ok"
    /\ PreDegree(call.op0) = 1
    /\ \E T \in {SingleRotation} : T.ret = "ok" /\ KsNames(T.log) = <<11>>
    /\ FirstK = 3 /\ RotK = 6
    /\ KsNames(first.log) = <<11, 12>> /\ KsNames(log) = <<22>>

\* ------------------------------------------------------------------ inner sum

\* The plaintext polynomial (modulo Q) a degree-1 element decrypts to under
\* SecretKey: value[0] + value[1] * sk, as coefficients.
Decrypt(el) ==
    LET v0 == IF el.value[0].d = "ntt" THEN el.value[0] ELSE NTT(contextQ, el.value[0])
        v1 == IF el.value[1].d = "ntt" THEN el.value[1] ELSE NTT(contextQ, el.value[1])
    IN  InvNTT(contextQ,
               [c |-> [u \in Idx |-> (v0.c[u] + v1.c[u] * SecretNTT.c[u]) % contextQ.mod],
                d |-> "ntt"]).c

\* The sum of the images of m under every automorphism X -> X^g, g odd: the
\* polynomial whose every slot is the sum of all slots of m.
SlotSum(m) ==
    [u \in Idx |->
       SumTo([h \in Idx |-> Permute(contextQ, [c |-> m, d |-> "coef"], 2 * h + 1).c[u]], N - 1)
         % contextQ.mod]

InnerSumCall ==
    /\ call.op = "InnerSum"
    /\ PreDegree(call.op0) = 1 /\ PreDegree(call.opOut) = 1
    /\ Pow2Below \subseteq DOMAIN keys.evakey_rot_col_L
    /\ ~IsNilKey(keys.evakey_rot_row)

InnerSumRight ==
    /\ ret = "ok"
    /\ \A m \in {Decrypt(pre.heap[call.op0])} : Decrypt(heap[call.opOut]) = SlotSum(m)
    /\ KsNames(log) = Pow2Names(10, N \div 2 - 1, 1) \o <<30>>

\* C11: for a degree-1 input C and keys holding the left power-of-two keys and
\* the row key, after InnerSum(C, keys, Out) every slot of Out holds the sum of
\* all slots of C, for Out = C and for a distinct Out, and the procedure makes
\* the column rotations by 1, 2, ..., N/4 followed by one row rotation.
C11_InnerSumAllSlots == InnerSumCall => InnerSumRight

\* What the code does guarantee: the sum is right when the receiver is the input.
C11_RightWhenReceiverIsInput == (InnerSumCall /\ call.opOut = call.op0) => InnerSumRight

\* An inner sum into the input itself came out right, with a sum that is not zero.
C11_ReceiverIsInputDone ==
    /\ InnerSumCall /\ call.opOut = call.op0 /\ InnerSumRight
    /\ Decrypt(heap[call.opOut])[0] # 0

InputKept == heap[call.op0] = pre.heap[call.op0]

\* RotateColumns by a multiple of N/2 into a distinct receiver, and the
\* power-of-two rotation of an NTT input into a distinct receiver.
RotationCopiesRight ==
    /\ (RotColCall /\ ret = "ok" /\ RotK = 0 /\ call.opOut # call.op0) =>
          /\ heap[call.opOut].value = pre.heap[call.op0].value
          /\ InputKept
    /\ (RotColCall /\ ret = "ok" /\ call.opOut # call.op0 /\ pre.heap[call.op0].isNTT
          /\ \E n \in 1..Len(log) : log[n][1] = "path" /\ log[n][2] \in {"L", "R"}) =>
          InputKept

\* C19: every copy of the input element into a distinct receiver leaves the
\* receiver holding the input's polynomials and the input unchanged: RotateColumns
\* by a multiple of N/2 leaves Out equal to In, the power-of-two rotation of an
\* NTT input keeps the input, and InnerSum into a distinct Out never modifies C.
C19_CopyDirection ==
    /\ RotationCopiesRight
    /\ (call.op = "InnerSum" /\ call.opOut # call.op0) => InputKept

\* What the code does guarantee: the two copies of RotateColumns go the right way.
C19_RotationCopiesRight == (call.op = "RotateColumns") => RotationCopiesRight

C19_RotationCopied ==
    /\ RotColCall /\ ret = "ok" /\ RotK = 0 /\ call.opOut # call.op0
    /\ heap[call.opOut].value = pre.heap[call.op0].value
    /\ heap[call.opOut].value # pre.heap[call.opOut].value

\* ------------------------------------------------------------ lazy reduction

\* The accumulations and reductions of the last call, in order.
IsAccOrReduce(e) == e[1] \in {"acc", "reduce"}

Schedule == SelectSeq(log, IsAccOrReduce)

\* Number of accumulations among the first n steps of the schedule.
RECURSIVE AccCount(_, _)
AccCount(sch, n) ==
    IF n = 0 THEN 0 ELSE AccCount(sch, n - 1) + (IF sch[n][1] = "acc" THEN 1 ELSE 0)

\* Number of accumulations made since the last reduction before step n, step n included.
RECURSIVE SinceReduce(_, _)
SinceReduce(sch, n) ==
    IF n = 0 \/ sch[n][1] = "reduce" THEN 0 ELSE 1 + SinceReduce(sch, n - 1)

SwitchCall == call.op = "SwitchKeys" /\ ret = "ok"


\* The largest coefficient of the two accumulators after accumulation n.
Largest(vals) == CHOOSE m \in vals : \A q \in vals : q <= m

Peak(n) == Largest(UNION {{Schedule[n][4][v].c[u] : u \in Idx} : v \in {0, 1}})

\* C12: with out[0], out[1] reduced on entry and a Reduce after every 8th
\* accumulation, no coefficient of out[0] or out[1] exceeds the machine word at
\* any point of the loop of switchKeys, for a modulus one bit shorter than the word.
C12_NoWordOverflow ==
    SwitchCall =>
        \A n \in 1..Len(Schedule) :
           Schedule[n][1] = "acc" => Peak(n) < Pow2(WordBits)

\* What the schedule does guarantee: after the k-th accumulation since the last
\* reduction no coefficient exceeds (k+1)(q-1), k <= 8, hence 9(q-1) throughout.
C12_PeakWithinNineQ ==
    SwitchCall =>
        \A n \in 1..Len(Schedule) :
           Schedule[n][1] = "acc" =>
              /\ SinceReduce(Schedule, n) <= 8
              /\ Peak(n) <= (SinceReduce(Schedule, n) + 1) * (contextQ.mod - 1)

\* Seven accumulations in a row have taken a coefficient above 4(q-1).
C12_PeakReached ==
    /\ SwitchCall
    /\ \E n \in 1..Len(Schedule) :
          /\ Schedule[n][1] = "acc" /\ SinceReduce(Schedule, n) = 7
          /\ Peak(n) > 4 * (contextQ.mod - 1)

\* C16: counting the accumulations of a call of switchKeys, a Reduce follows the
\* 8th, 16th, ... accumulation; never more than 8 accumulations are made since
\* the last Reduce; after at least one accumulation the call ends with exactly
\* one Reduce after the last accumulation (the closing Reduce is skipped exactly
\* when the count is a positive multiple of 8); no Reduce is made when the count is 0.
C16_ReduceSchedule ==
    SwitchCall =>
        LET sch == Schedule
            total == AccCount(sch, Len(sch))
        IN  /\ total = Cardinality(DOMAIN keys.evakey[0])
            /\ \A n \in 1..Len(sch) :
                  IF sch[n][1] = "acc"
                  THEN /\ SinceReduce(sch, n) <= 8
                       /\ n < Len(sch)
                       /\ (sch[n + 1][1] = "reduce") <=>
                             (AccCount(sch, n) % 8 = 0 \/ AccCount(sch, n) = total)
                  ELSE n > 1 /\ sch[n - 1][1] = "acc"
            /\ total = 0 => sch = <<>>

\* A call of 16 accumulations: a Reduce after the 8th and one after the 16th,
\* which is the last step.
C16_Witness ==
    /\ SwitchCall
    /\ AccCount(Schedule, Len(Schedule)) = 16
    /\ Len(Schedule) = 18
    /\ Schedule[9][1] = "reduce" /\ Schedule[18][1] = "reduce"

\* ------------------------------------------------------------ relinearization

\* Coefficient h (1 or 2) of the key switch of c2 with key: the sum over the
\* digits j of key[j][h] times the NTT of digit j of c2, modulo Q.
KeySwitchSum(c2, key, h) ==
    LET n == Cardinality(DOMAIN key.evakey[0])
        dig == [j \in 0..(n - 1) |-> NTT(contextQ, Digit(c2, j, key.bitDecomp))]
    IN  [u \in Idx |->
           SumTo([j \in 0..(n - 1) |-> MontMul(contextQ, key.evakey[0][j][h], dig[j], u)], n - 1)
             % contextQ.mod]

\* Slot h - 1 of the receiver as the procedure of relinearization defines it:
\* C.value[h-1] plus the key switch of C.value[deg] with K[deg-2], deg = 2..d.
RelinExpected(h) ==
    LET d == PreDegree(call.op0)
        C == PreValue(call.op0)
        base == NTT(contextQ, C[h - 1])
        ks == [x \in 0..(d - 2) |-> KeySwitchSum(C[x + 2], keys.evakey[x], h)]
    IN  InvNTT(contextQ,
               [c |-> [u \in Idx |-> (base.c[u] + SumTo([x \in 0..(d - 2) |-> ks[x][u]], d - 2))
                                        % contextQ.mod],
                d |-> "ntt"]).c

RelinApplies ==
    /\ RelinCall
    /\ PreDegree(call.op0) >= 2
    /\ Cardinality(DOMAIN keys.evakey) >= PreDegree(call.op0) - 1

RelinRight ==
    LET d == PreDegree(call.op0)
    IN  /\ ret = "ok"
        /\ KsNames(log) = [n \in 1..(d - 1) |-> 40 + (d - n + 1) - 2]
        /\ DOMAIN heap[call.opOut].value = 0..1
        /\ \A h \in 1..2 : heap[call.opOut].value[h - 1].c = RelinExpected(h)
        /\ call.opOut # call.op0 => heap[call.op0] = pre.heap[call.op0]

\* C17: Relinearize on an input of degree d >= 2 with a key of at least d-1
\* entries key-switches C.value[deg], deg = d, ..., 2 in that order, once each
\* with K[deg-2], into receiver slots 0 and 1 initialised from C.value[0] and
\* C.value[1]; the receiver ends with exactly 2 polynomials whatever its degree
\* on entry, and a distinct input is unchanged.
C17_RelinearizeSteps == RelinApplies => RelinRight

\* What the code does guarantee: the same for a receiver of degree 1 or more.
C17_RightWhenReceiverHolds ==
    (RelinApplies /\ (call.op = "RelinearizeNew" \/ PreDegree(call.opOut) >= 1)) => RelinRight

\* A degree-3 input has been relinearized into a distinct receiver of degree 3.
C17_Relinearized ==
    /\ RelinApplies /\ RelinRight /\ call.op = "Relinearize"
    /\ PreDegree(call.op0) = 3 /\ call.opOut # call.op0 /\ PreDegree(call.opOut) = 3
    /\ KsNames(log) = <<41, 40>>

\* ------------------------------------------------------ power-of-two rotation

\* The permutations and key switches of the last call, in order: a permutation
\* as <<"perm", g, i>> for value[i] of the receiver, a key switch as <<"ks", name>>.
IsPermOrKs(e) == e[1] \in {"perm", "ks"}

RotSteps ==
    LET sel == SelectSeq(log, IsPermOrKs)
    IN  [n \in 1..Len(sel) |->
           IF sel[n][1] = "perm" THEN <<"perm", sel[n][2], sel[n][3][3]>> ELSE <<"ks", sel[n][2]>>]

\* For every set bit of k, least significant first: both polynomials permuted
\* with the running generator G, then a key switch with the key of the running
\* index; G is squared modulo 2N and the index doubled at every bit.
RECURSIVE Pow2Steps(_, _, _, _)
Pow2Steps(G, base, k, index) ==
    IF k = 0 THEN <<>>
    ELSE (IF k % 2 = 1
          THEN <<<<"perm", G, 0>>, <<"perm", G, 1>>, <<"ks", base + index>>>>
          ELSE <<>>)
         \o Pow2Steps((G * G) % (2 * N), base, k \div 2, 2 * index)

Pow2Call == call.op = "rotateColumnsPow2" /\ ret = "ok"

Pow2Gen == IF call.dir = "L" THEN gen ELSE genInv

Pow2Base == IF call.dir = "L" THEN 10 ELSE 20

\* C18: rotateColumnsPow2 with generator g and amount k in 1..N/2-1 applies, for
\* each set bit b of k from the least significant, the automorphism g^(2^b) mod
\* 2N followed by a key switch with evk[2^b], and nothing for a clear bit: the
\* automorphisms compose to X -> X^(g^k mod 2N) (the receiver decrypts to that
\* image of the input under generated keys), the key switches number
\* popcount(k), and every key looked up is that of a power of two below N/2.
C18_Pow2Rotation ==
    Pow2Call =>
        LET G == PowMod(Pow2Gen, call.k, 2 * N)
        IN  /\ RotSteps = Pow2Steps(Pow2Gen, Pow2Base, call.k, 1)
            /\ NetGal(log) = G
            /\ Len(KsNames(log)) = hammingWeight64(call.k)
            /\ \A n \in 1..Len(KsNames(log)) : KsNames(log)[n] - Pow2Base \in Pow2Below
            /\ keys = GenRotationKeys(Pow2Below, Pow2Below, TRUE) =>
                 \A m \in {Decrypt(pre.heap[call.op0])} :
                    Decrypt(heap[call.opOut]) = Permute(contextQ, [c |-> m, d |-> "coef"], G).c

\* A right rotation by 7 = 1 + 2 + 4 made three key switches, with the keys of 1, 2 and 4.
C18_Witness ==
    /\ Pow2Call /\ call.dir = "R" /\ call.k = 7
    /\ KsNames(log) = <<21, 22, 24>>
    /\ NetGal(log) = PowMod(genInv, 7, 2 * N)
    /\ keys = GenRotationKeys(Pow2Below, Pow2Below, TRUE)

\* ---------------------------------------------------- rotation of degree 0

\* A rotation of a degree-0 input into a degree-0 receiver.
DegreeZeroRotation ==
    /\ call.op \in {"RotateColumns", "RotateRows"}
    /\ PreDegree(call.op0) = 0
    /\ PreDegree(call.opOut) = 0

\* value[0] of the input under the automorphism of the call, in the input's form.
DegreeZeroImage ==
    LET in == pre.heap[call.op0]
        g == IF call.op = "RotateRows" THEN galElRotRow
             ELSE PowMod(gen, call.k % (N \div 2), 2 * N)
    IN  IF in.isNTT THEN PermuteNTT(in.value[0], g) ELSE Permute(contextQ, in.value[0], g)

\* The call succeeded, made no key switch and left the permuted value[0] in the receiver.
DegreeZeroRight ==
    /\ ret = "ok"
    /\ KsNames(log) = <<>>
    /\ heap[call.opOut].value[0] = DegreeZeroImage

\* C20: RotateColumns and RotateRows of a degree-0 input into a degree-0
\* receiver succeed, switch no key and write the permuted value[0] to the
\* receiver, whatever the rotation keys hold and whether or not the key of
\* the rotation was generated.
C20_DegreeZeroNeedsNoKey == DegreeZeroRotation => DegreeZeroRight

\* What the code does guarantee: the column rotation needs no key, and the row
\* rotation needs none once the row key exists.
C20_RightUnlessRowKeyMissing ==
    (DegreeZeroRotation /\ ~(call.op = "RotateRows" /\ IsNilKey(keys.evakey_rot_row)))
        => DegreeZeroRight

\* A column rotation of degree 0 by 3 done without any column key.
C20_ColumnsWithoutKey ==
    /\ DegreeZeroRotation /\ call.op = "RotateColumns" /\ call.k = 3
    /\ DOMAIN keys.evakey_rot_col_L = {}
    /\ DegreeZeroRight

\* ================================================================ CKKS encoder

\* GaloisGen: the generator of the rotation group.
GaloisGen == 5

\* A complex number is kept exactly, as an element of Q(zeta), zeta = e^(2 pi i/m):
\* [c, d] is (c[0] + c[1] zeta + ... + c[m/2-1] zeta^(m/2-1)) / d, with
\* zeta^(m/2) = -1 and i = zeta^(m/4). Exact arithmetic stands for complex128
\* and for big.Float: roundoff is not modelled.
CxInt(m, re, im) ==
    [c |-> [k \in 0..(m \div 2 - 1) |-> IF k = 0 THEN re ELSE IF k = m \div 4 THEN im ELSE 0],
     d |-> 1]

CxAdd(x, y) ==
    IF x.d = y.d THEN [c |-> [k \in DOMAIN x.c |-> x.c[k] + y.c[k]], d |-> x.d]
    ELSE [c |-> [k \in DOMAIN x.c |-> x.c[k] * y.d + y.c[k] * x.d], d |-> x.d * y.d]

CxSub(x, y) ==
    IF x.d = y.d THEN [c |-> [k \in DOMAIN x.c |-> x.c[k] - y.c[k]], d |-> x.d]
    ELSE [c |-> [k \in DOMAIN x.c |-> x.c[k] * y.d - y.c[k] * x.d], d |-> x.d * y.d]

CxMul(m, x, y) ==
    LET H == m \div 2
    IN  [c |-> [k \in 0..(H - 1) |->
                  SumTo([i \in 0..(H - 1) |->
                           (IF i <= k THEN 1 ELSE -1) * x.c[i] * y.c[(k + H - i) % H]], H - 1)],
         d |-> x.d * y.d]

CxDiv(x, n) == [c |-> x.c, d |-> x.d * n]

CxEq(x, y) == \A k \in DOMAIN x.c : x.c[k] * y.d = y.c[k] * x.d

\* newEncoder: rotGroup has m/2 entries, the first m/4 of them the powers of
\* GaloisGen modulo m.
rotGroup(m) ==
    [i \in 0..(m \div 2 - 1) |-> IF i < m \div 4 THEN PowMod(GaloisGen, i, m) ELSE 0]

\* NewEncoder: roots[i] = e^(2 pi i * i/m) for i < m, and roots[m] = roots[0].
roots(m) ==
    [i \in 0..m |->
       LET e == IF i = m THEN 0 ELSE i
       IN  [c |-> [k \in 0..(m \div 2 - 1) |->
                     IF k = e % (m \div 2) THEN (IF e < m \div 2 THEN 1 ELSE -1) ELSE 0],
            d |-> 1]]

\* The index into roots of pass len at offset j, in invfft and in fft.
InvFFTIdx(rg, M, len, j) ==
    LET lenq == 4 * len
        gap == M \div lenq
    IN  (lenq - (rg[j] % lenq)) * gap

\* fft reading the conjugate root, as invfft does.
FFTIdx_Conjugate(rg, M, len, j) == InvFFTIdx(rg, M, len, j)

FFTIdx(rg, M, len, j) ==
    LET lenq == 4 * len
        gap == M \div lenq
    IN  (rg[j] % lenq) * gap

\* The lengths of the passes: n, n/2, ..., 1 (invfft) and 2, 4, ..., n (fft).
PassLens(n, from) == {len \in from..n : \E e \in 0..n : len = Pow2(e)}

\* One pass of invfft: every block of len entries, every j below len/2.
InvFFTPass(values, n, M, rg, rt, len) ==
    LET lenh == len \div 2
    IN  [t \in DOMAIN values |->
           IF t >= n \/ lenh = 0 THEN values[t]
           ELSE IF t % len < lenh
           THEN CxAdd(values[t], values[t + lenh])
           ELSE CxMul(M, CxSub(values[t - lenh], values[t]),
                      rt[InvFFTIdx(rg, M, len, (t % len) - lenh)])]

\* One pass of fft.
FFTPass(values, n, M, rg, rt, len) ==
    LET lenh == len \div 2
    IN  [t \in DOMAIN values |->
           IF t >= n THEN values[t]
           ELSE IF t % len < lenh
           THEN CxAdd(values[t], CxMul(M, values[t + lenh], rt[FFTIdx(rg, M, len, t % len)]))
           ELSE CxSub(values[t - lenh],
                      CxMul(M, values[t], rt[FFTIdx(rg, M, len, (t % len) - lenh)]))]

\* The bit-reversal permutation of the first n entries.
RECURSIVE BitRev(_, _)
BitRev(i, n) == IF n <= 1 THEN 0 ELSE (i % 2) * (n \div 2) + BitRev(i \div 2, n \div 2)

sliceBitReverseInPlaceComplex128(values, n) ==
    [t \in DOMAIN values |-> IF t < n THEN values[BitRev(t, n)] ELSE values[t]]

\* A vector with its entries computed.
Settled(values) == \A t \in DOMAIN values : values[t].c = values[t].c

RECURSIVE InvFFTLoop(_, _, _, _, _, _)
InvFFTLoop(values, n, M, rg, rt, len) ==
    IF len < 1 THEN values
    ELSE LET next == InvFFTPass(values, n, M, rg, rt, len)
         IN  IF Settled(next) THEN InvFFTLoop(next, n, M, rg, rt, len \div 2) ELSE next

RECURSIVE FFTLoop(_, _, _, _, _, _)
FFTLoop(values, n, M, rg, rt, len) ==
    IF len > n THEN values
    ELSE LET next == FFTPass(values, n, M, rg, rt, len)
         IN  IF Settled(next) THEN FFTLoop(next, n, M, rg, rt, 2 * len) ELSE next

\* The indices into roots, rotGroup and values that a transform of length n reads.
InvFFTReads(n, M, rg) ==
    [roots |-> {InvFFTIdx(rg, M, p[1], p[2]) :
                  p \in {q \in PassLens(n, 1) \X (0..n) : q[2] < q[1] \div 2 /\ q[2] \in DOMAIN rg}},
     rotGroup |-> {j \in 0..n : 2 * j < n},
     values |-> 0..(n - 1)]

FFTReads(n, M, rg) ==
    [roots |-> {FFTIdx(rg, M, p[1], p[2]) :
                  p \in {q \in PassLens(n, 2) \X (0..n) : q[2] < q[1] \div 2 /\ q[2] \in DOMAIN rg}},
     rotGroup |-> {j \in 0..n : 2 * j < n},
     values |-> 0..(n - 1)]

InRange(reads, values, rg, rt) ==
    /\ reads.roots \subseteq DOMAIN rt
    /\ reads.rotGroup \subseteq DOMAIN rg
    /\ reads.values \subseteq DOMAIN values

\* invfft: the passes of lengths n down to 1, the division by n, the bit
\* reversal. An index out of range aborts.
invfft(values, n, M, rg, rt) ==
    IF ~InRange(InvFFTReads(n, M, rg), values, rg, rt) THEN [values |-> values, ret |-> "panic"]
    ELSE LET v == InvFFTLoop(values, n, M, rg, rt, n)
         IN  [values |-> sliceBitReverseInPlaceComplex128(
                            [t \in DOMAIN v |-> IF t < n THEN CxDiv(v[t], n) ELSE v[t]], n),
              ret |-> "ok"]

\* fft: the bit reversal, then the passes of lengths 2 up to n.
fft(values, n, M, rg, rt) ==
    IF ~InRange(FFTReads(n, M, rg), values, rg, rt) THEN [values |-> values, ret |-> "panic"]
    ELSE LET v == sliceBitReverseInPlaceComplex128(values, n)
         IN  [values |-> IF Settled(v) THEN FFTLoop(v, n, M, rg, rt, 2) ELSE v, ret |-> "ok"]

\* ------------------------------------------------------- transform round trip

\* The ring degree of the transform round trip, and m = 2N.
FFTRingN == N

FFTM == 2 * FFTRingN

NumVectors == 6

\* Vector number seed of length n in a buffer of N/2 entries: small Gaussian integers.
FFTInput(seed, n) ==
    [t \in 0..(FFTRingN \div 2 - 1) |->
       IF t < n THEN CxInt(FFTM, ((seed * 7 + 3 * t) % 5) - 2, ((seed + t * t) % 3) - 1)
       ELSE CxInt(FFTM, 0, 0)]

EncReturn(c, h, lg, r, next) ==
    Return(<<>>, NoKeys, c, [heap |-> h, pp |-> polypool, cp |-> ctxpool, log |-> lg, ret |-> r], next)

\* fft(invfft(w)) for every power-of-two length up to N/2.
InvFFTThenFFT ==
    /\ pc = "idle"
    /\ \E n \in PassLens(FFTRingN \div 2, 1), seed \in 1..NumVectors :
         LET w == FFTInput(seed, n)
             rg == rotGroup(FFTM)
             rt == roots(FFTM)
             a == invfft(w, n, FFTM, rg, rt)
             b == IF a.ret = "ok" THEN fft(a.values, n, FFTM, rg, rt) ELSE a
         IN  EncReturn([op |-> "invfft;fft", N |-> n, values |-> w],
                       [id \in {1} |-> [value |-> b.values, isNTT |-> FALSE]],
                       <<<<"invfft", InvFFTReads(n, FFTM, rg).roots>>, <<"fft", FFTReads(n, FFTM, rg).roots>>>>,
                       b.ret, "done")

\* ------------------------------------------------------ encoder parameters

\* params.LogN(), params.N(), encoder.m.
EncLogN == 2

EncN == Pow2(EncLogN)

EncM == 2 * EncN

\* params.qi, with a primitive 2N-th root of unity of each modulus.
EncModuli == [i \in 0..2 |-> <<97, 17, 41>>[i + 1]]

EncPsi == [i \in 0..2 |-> <<50, 2, 3>>[i + 1]]

MaxLevel == Cardinality(DOMAIN EncModuli) - 1

\* bigintChain[level]: the product of the moduli up to level.
RECURSIVE genBigIntChain(_)
genBigIntChain(level) ==
    IF level = 0 THEN EncModuli[0] ELSE EncModuli[level] * genBigIntChain(level - 1)

\* params.scale: below the first modulus and above it.
EncScales == {8, 16, 128}

\* The real and imaginary parts of the slot values handed to the encoder.
EncComponents == {-1, 0, 1}

\* The vectors of at most 2^logSlots values.
EncValues(logSlots) ==
    UNION {[0..(l - 1) -> {CxInt(EncM, re, im) : re, im \in EncComponents}] :
             l \in 0..Pow2(logSlots)}

\* ------------------------------------------------------------ real numbers

\* A real number of Q(sqrt 2): [a, b, d] is (a + b sqrt 2) / d, d > 0. With
\* m = 8, zeta = (1 + i)/sqrt 2, so the real part of c0 + c1 zeta + c2 zeta^2 +
\* c3 zeta^3 is c0 + (c1 - c3)/sqrt 2 and its imaginary part c2 + (c1 + c3)/sqrt 2.
RealZero == [a |-> 0, b |-> 0, d |-> 1]

real(x) == [a |-> 2 * x.c[0], b |-> x.c[1] - x.c[3], d |-> 2 * x.d]

imag(x) == [a |-> 2 * x.c[2], b |-> x.c[1] + x.c[3], d |-> 2 * x.d]

RECURSIVE ISqrt(_)
ISqrt(n) ==
    IF n < 2 THEN n
    ELSE LET r == 2 * ISqrt(n \div 4)
         IN  IF (r + 1) * (r + 1) <= n THEN r + 1 ELSE r

\* s sqrt 2 <= l, for integers s and l.
LeqSqrt2(s, l) ==
    IF s <= 0 THEN l >= 0 \/ 2 * s * s >= l * l
    ELSE l >= 0 /\ 2 * s * s <= l * l

\* floor(s sqrt 2).
FloorSqrt2(s) == IF s >= 0 THEN ISqrt(2 * s * s) ELSE -ISqrt(2 * s * s) - 1

\* scale * x rounded to the nearest integer, halves away from zero.
RoundScaled(x, scale) ==
    LET neg == ~LeqSqrt2(-x.b, x.a)
        A == IF neg THEN -scale * x.a ELSE scale * x.a
        B == IF neg THEN -scale * x.b ELSE scale * x.b
        r == (2 * A + x.d + FloorSqrt2(2 * B)) \div (2 * x.d)
    IN  IF neg THEN -r ELSE r

\* scaleUpVecExact: every value times the scale, rounded, in every residue class.
scaleUpVecExact(values, scale, moduli, level) ==
    [i \in 0..level |-> [k \in DOMAIN values |-> RoundScaled(values[k], scale) % moduli[i]]]

\* ------------------------------------------------------------------- ring

\* NTTLvl and InvNTTLvl: rows 0..level, each with its own modulus and root.
NTTLvl(level, coeffs) ==
    [i \in DOMAIN coeffs |->
       IF i > level THEN coeffs[i]
       ELSE [j \in 0..(EncN - 1) |->
               SumTo([k \in 0..(EncN - 1) |->
                        (coeffs[i][k] * PowMod(EncPsi[i], (k * (2 * j + 1)) % EncM, EncModuli[i]))
                          % EncModuli[i]], EncN - 1) % EncModuli[i]]]

InvNTTLvl(level, coeffs) ==
    [i \in DOMAIN coeffs |->
       IF i > level THEN coeffs[i]
       ELSE [k \in 0..(EncN - 1) |->
               (SumTo([j \in 0..(EncN - 1) |->
                         (coeffs[i][j]
                            * PowMod(EncPsi[i], (EncM - ((k * (2 * j + 1)) % EncM)) % EncM, EncModuli[i]))
                           % EncModuli[i]], EncN - 1)
                  * InvMod(EncN, EncModuli[i])) % EncModuli[i]]]

\* PolyToBigint: the integer below the product of the moduli with the residues of coefficient k.
PolyToBigint(coeffs, level, k) ==
    LET Q == genBigIntChain(level)
    IN  SumTo([i \in 0..level |->
                 LET Qi == Q \div EncModuli[i]
                 IN  ((coeffs[i][k] * InvMod(Qi % EncModuli[i], EncModuli[i])) % EncModuli[i]) * Qi],
              level) % Q

\* ---------------------------------------------------------------- encoding

\* A plaintext: one polynomial of level+1 rows, a scale, the NTT flag.
NewPlaintext(level, scale) ==
    [value |-> [i \in 0..level |-> [k \in 0..(EncN - 1) |-> 0]], scale |-> scale, isNTT |-> TRUE]

Level(plaintext) == Cardinality(DOMAIN plaintext.value) - 1

\* Embed: the values copied into encoder.values, invfft over the slots, real
\* parts to valuesfloat[i*gap] and imaginary parts to valuesfloat[N/2 + i*gap].
Embed(values, logSlots) ==
    LET slots == Pow2(logSlots)
        len == Cardinality(DOMAIN values)
    IN  IF len > EncN \div 2 \/ len > slots \/ logSlots > EncLogN - 1
        THEN [valuesfloat |-> <<>>, ret |-> "panic"]
        ELSE LET buf == [t \in 0..(EncN \div 2 - 1) |->
                           IF t < len THEN values[t] ELSE CxInt(EncM, 0, 0)]
                 f == invfft(buf, slots, EncM, rotGroup(EncM), roots(EncM))
                 gap == (EncN \div 2) \div slots
             IN  [valuesfloat |->
                    [k \in 0..(EncN - 1) |->
                       IF k < EncN \div 2
                       THEN IF k % gap = 0 /\ k \div gap < slots
                            THEN real(f.values[k \div gap]) ELSE RealZero
                       ELSE IF (k - EncN \div 2) % gap = 0 /\ (k - EncN \div 2) \div gap < slots
                            THEN imag(f.values[(k - EncN \div 2) \div gap]) ELSE RealZero],
                  ret |-> f.ret]

\* Encode: Embed, ScaleUp onto the moduli of the plaintext's level, isNTT = false.
\* The arbitrary-precision encoder refuses a vector of fewer than slots values
\* and leaves the NTT flag of the plaintext as it finds it.
Encode(enc, plaintext, values, logSlots) ==
    LET e == Embed(values, logSlots)
    IN  IF e.ret # "ok" \/ (enc = "big" /\ Cardinality(DOMAIN values) # Pow2(logSlots))
        THEN [plaintext |-> plaintext, ret |-> "panic"]
        ELSE [plaintext |->
                [plaintext EXCEPT
                   !.value = scaleUpVecExact(e.valuesfloat, plaintext.scale, EncModuli, Level(plaintext)),
                   !.isNTT = IF enc = "big" THEN plaintext.isNTT ELSE FALSE],
              ret |-> "ok"]

EncodeNTT(enc, plaintext, values, logSlots) ==
    LET e == Encode(enc, plaintext, values, logSlots)
    IN  IF e.ret # "ok" THEN e
        ELSE [plaintext |->
                [e.plaintext EXCEPT !.value = NTTLvl(Level(e.plaintext), e.plaintext.value),
                                    !.isNTT = TRUE],
              ret |-> "ok"]

EncodeAtLvlNew(enc, scale, level, values, logSlots) ==
    Encode(enc, NewPlaintext(level, scale), values, logSlots)

EncodeNTTAtLvlNew(enc, scale, level, values, logSlots) ==
    EncodeNTT(enc, NewPlaintext(MaxLevel, scale), values, logSlots)

\* ---------------------------------------------------------------- decoding

\* polyToComplexNoCRT with the residues read as unsigned numbers.
polyToComplexNoCRT_Unsigned(coeffs, scale, logSlots, Q) ==
    LET slots == Pow2(logSlots)
        maxSlots == Cardinality(DOMAIN coeffs) \div 2
        gap == maxSlots \div slots
    IN  [i \in 0..(maxSlots - 1) |->
           IF i >= slots THEN CxInt(EncM, 0, 0)
           ELSE CxDiv(CxInt(EncM, coeffs[i * gap], coeffs[i * gap + maxSlots]), scale)]

\* polyToComplexNoCRT: the residues modulo the first modulus, negative from Q>>1 on.
polyToComplexNoCRT(coeffs, scale, logSlots, Q) ==
    LET slots == Pow2(logSlots)
        maxSlots == Cardinality(DOMAIN coeffs) \div 2
        gap == maxSlots \div slots
        signed(c) == IF c >= Q \div 2 THEN -(Q - c) ELSE c
    IN  [i \in 0..(maxSlots - 1) |->
           IF i >= slots THEN CxInt(EncM, 0, 0)
           ELSE CxDiv(CxInt(EncM, signed(coeffs[i * gap]), signed(coeffs[i * gap + maxSlots])), scale)]

\* polyToComplexCRT: the residues lifted to integers modulo Q, negative from Q>>1 on.
polyToComplexCRT(poly, scale, logSlots, level, Q) ==
    LET slots == Pow2(logSlots)
        maxSlots == EncN \div 2
        gap == maxSlots \div slots
        signed(k) == LET c == PolyToBigint(poly, level, k) % Q
                     IN  IF c >= Q \div 2 THEN c - Q ELSE c
    IN  [i \in 0..(maxSlots - 1) |->
           IF i >= slots THEN CxInt(EncM, 0, 0)
           ELSE CxDiv(CxInt(EncM, signed(i * gap), signed(i * gap + maxSlots)), scale)]

plaintextToComplex(level, scale, logSlots, p) ==
    IF scale < EncModuli[0] \/ level = 0
    THEN polyToComplexNoCRT(p[0], scale, logSlots, EncModuli[0])
    ELSE polyToComplexCRT(p, scale, logSlots, level, genBigIntChain(level))

\* decodePublic with sigma = 0 (Decode): the sampler adds nothing.
decodePublic(plaintext, logSlots) ==
    IF logSlots > EncLogN - 1 THEN [res |-> <<>>, ret |-> "panic"]
    ELSE LET slots == Pow2(logSlots)
             polypool0 == IF plaintext.isNTT
                          THEN InvNTTLvl(Level(plaintext), plaintext.value)
                          ELSE plaintext.value
             v == plaintextToComplex(Level(plaintext), plaintext.scale, logSlots, polypool0)
             f == IF Settled(v) THEN fft(v, slots, EncM, rotGroup(EncM), roots(EncM))
                  ELSE [values |-> v, ret |-> "panic"]
         IN  [res |-> [i \in 0..(slots - 1) |-> f.values[i]], ret |-> f.ret]

\* ------------------------------------------------------------ encoder calls

EncoderKinds == {"complex128", "big"}

CallEncode(op) ==
    /\ pc = "idle"
    /\ \E enc \in EncoderKinds, scale \in EncScales, level \in 0..MaxLevel,
          logSlots \in 0..(EncLogN - 1) :
         \E values \in EncValues(logSlots) :
            LET r == IF op = "EncodeAtLvlNew"
                     THEN EncodeAtLvlNew(enc, scale, level, values, logSlots)
                     ELSE EncodeNTTAtLvlNew(enc, scale, level, values, logSlots)
            IN  EncReturn([op |-> op, enc |-> enc, scale |-> scale, level |-> level,
                           values |-> values, logSlots |-> logSlots],
                          [id \in {1} |-> r.plaintext], <<>>, r.ret, "enc")

EncoderEncodeAtLvlNew == CallEncode("EncodeAtLvlNew")

EncoderEncodeNTTAtLvlNew == CallEncode("EncodeNTTAtLvlNew")

\* Decode of the plaintext just encoded, with the same logSlots.
EncoderDecode ==
    /\ pc = "enc" /\ ret = "ok" /\ call.enc = "complex128"
    /\ LET r == decodePublic(heap[1], call.logSlots)
       IN  EncReturn([op |-> "Decode", logSlots |-> call.logSlots, encode |-> call],
                     [id \in {1, 2} |-> IF id = 1 THEN heap[1]
                                        ELSE [value |-> r.res, isNTT |-> FALSE]],
                     <<>>, r.ret, "dec")

NextEncoder ==
    \/ EncoderEncodeAtLvlNew
    \/ EncoderEncodeNTTAtLvlNew
    \/ EncoderDecode
    \/ InvFFTThenFFT

SpecEncoder == Init /\ [][NextEncoder]_vars

\* The first n entries of two vectors are the same numbers.
SameVector(a, b, n) == \A t \in 0..(n - 1) : CxEq(a[t], b[t])

\* C15: for every power-of-two length n <= N/2 and every vector w of length n,
\* fft(invfft(w)) = w: bit reversal is its own inverse, the fft pass of length
\* len applied after the invfft pass of length len doubles every entry (the
\* root indices of the two passes add up to M, so the roots are conjugate),
\* the division by n undoes the log2(n) doublings, and every index into
\* roots computed by either routine lies in 0..M.
C15_FFTInvFFT ==
    (call.op = "invfft;fft") =>
        LET n == call.N
            w == call.values
            rg == rotGroup(FFTM)
            rt == roots(FFTM)
        IN  /\ ret = "ok"
            /\ SameVector(heap[1].value, w, n)
            /\ sliceBitReverseInPlaceComplex128(sliceBitReverseInPlaceComplex128(w, n), n) = w
            /\ \A len \in PassLens(n, 2) :
                  /\ SameVector(FFTPass(InvFFTPass(w, n, FFTM, rg, rt, len), n, FFTM, rg, rt, len),
                                [t \in DOMAIN w |-> CxAdd(w[t], w[t])], n)
                  /\ \A j \in 0..(len \div 2 - 1) :
                        FFTIdx(rg, FFTM, len, j) + InvFFTIdx(rg, FFTM, len, j) = FFTM
            /\ \A e \in 1..Len(log) : log[e][2] \subseteq 0..FFTM

\* A vector of 8 entries, not all equal, went through three passes each way.
C15_Witness ==
    /\ call.op = "invfft;fft" /\ call.N = FFTRingN \div 2 /\ ret = "ok"
    /\ Cardinality(log[1][2]) > 2
    /\ \E t \in 1..(call.N - 1) : ~CxEq(call.values[t], call.values[0])
    /\ SameVector(heap[1].value, call.values, call.N)

\* ------------------------------------------------------------ encoded level

EncodeCall(op) == call.op = op /\ ret = "ok"

\* C13: EncodeNTTAtLvlNew(level, values, logSlots) of either encoder returns a
\* plaintext at the requested level, as EncodeAtLvlNew does, in NTT form, for
\* every level in 0..MaxLevel.
C13_EncodeNTTAtRequestedLevel ==
    /\ EncodeCall("EncodeNTTAtLvlNew") => (Level(heap[1]) = call.level /\ heap[1].isNTT)
    /\ EncodeCall("EncodeAtLvlNew") => Level(heap[1]) = call.level

\* What the code does: EncodeNTTAtLvlNew returns an NTT plaintext at MaxLevel
\* whatever the level asked for, the NTT of what EncodeAtLvlNew returns at
\* MaxLevel; EncodeAtLvlNew returns a plaintext at the requested level, not in NTT form.
C13_EncodeNTTAtMaxLevel ==
    /\ EncodeCall("EncodeNTTAtLvlNew") =>
          /\ Level(heap[1]) = MaxLevel /\ heap[1].isNTT
          /\ \A e \in {EncodeAtLvlNew(call.enc, call.scale, MaxLevel, call.values, call.logSlots)} :
                InvNTTLvl(MaxLevel, heap[1].value) = e.plaintext.value
    /\ EncodeCall("EncodeAtLvlNew") =>
          (Level(heap[1]) = call.level /\ (call.enc = "complex128" => ~heap[1].isNTT))

\* EncodeNTTAtLvlNew asked for level 0 with two non-zero values, by the
\* arbitrary-precision encoder.
C13_LevelZeroAsked ==
    /\ EncodeCall("EncodeNTTAtLvlNew") /\ call.level = 0 /\ call.enc = "big"
    /\ Cardinality(DOMAIN call.values) = 2
    /\ \E k \in 0..(EncN - 1) : heap[1].value[0][k] # 0
    /\ Level(heap[1]) = MaxLevel

\* --------------------------------------------------------- encoder round trip

\* |x| <= num/den for a real x of Q(sqrt 2).
AbsWithin(x, num, den) ==
    LET k == x.d \div den
    IN  /\ x.d = k * den
        /\ LeqSqrt2(x.b, num * k - x.a)
        /\ LeqSqrt2(-x.b, num * k + x.a)

\* The largest real or imaginary part, in absolute value, of the values of the call.
MaxComponent(values) ==
    LET abs(z) == IF z < 0 THEN -z ELSE z
        parts == {abs(values[t].c[0]) : t \in DOMAIN values}
                   \cup {abs(values[t].c[EncM \div 4]) : t \in DOMAIN values} \cup {0}
    IN  CHOOSE p \in parts : \A q \in parts : q <= p

\* The modulus the decoder reads the coefficients from: the first one when the
\* scale is below it or at level 0, the product up to the level otherwise.
Capacity(plaintext) ==
    IF plaintext.scale < EncModuli[0] \/ Level(plaintext) = 0 THEN EncModuli[0]
    ELSE genBigIntChain(Level(plaintext))

\* The values are small enough for the scaled coefficients (at most
\* sqrt 2 * scale * component, rounded) to lie in the signed range of the modulus.
ValidRoundTrip ==
    3 * heap[1].scale * MaxComponent(call.encode.values) + 4 <= Capacity(heap[1])

\* Value i of the encoded vector, zero past its length.
Encoded(i) ==
    IF i \in DOMAIN call.encode.values THEN call.encode.values[i] ELSE CxInt(EncM, 0, 0)

RoundTripOf(scale, level) ==
    /\ call.op = "Decode" /\ ValidRoundTrip /\ ret = "ok"
    /\ call.encode.op = "EncodeAtLvlNew" /\ call.encode.scale = scale /\ call.encode.level = level
    /\ Cardinality(DOMAIN call.encode.values) = 2
    /\ ~CxEq(call.encode.values[0], call.encode.values[1])
    /\ \E i \in DOMAIN heap[2].value : ~CxEq(heap[2].value[i], Encoded(i))

InnerSumFailed ==
    /\ call.op = "InnerSum" /\ IsError(ret)
    /\ PreDegree(call.op0) = 1 /\ PreDegree(call.opOut) = 1

\* C21: a failed InnerSum leaves the receiver and the input as they were before
\* the call: when a column key or the row key is missing, the error is returned
\* and no polynomial of Out nor of C differs from its value before the call.
C21_FailedInnerSumFrame ==
    InnerSumFailed =>
        /\ heap[call.opOut] = pre.heap[call.opOut]
        /\ heap[call.op0] = pre.heap[call.op0]

\* What the code does guarantee: the two degree errors, tested before the
\* first write, leave every element as it was.
C21_DegreeErrorFrame ==
    (call.op = "InnerSum" /\ IsError(ret) /\ ~InnerSumFailed) =>
        \A id \in DOMAIN pre.heap : heap[id] = pre.heap[id]

\* The row key is missing and every column key is there: the error comes after
\* the loop, the receiver holds the sums of the loop.
C21_RowKeyMissing ==
    /\ InnerSumFailed
    /\ IsNilKey(keys.evakey_rot_row)
    /\ heap[call.opOut] # pre.heap[call.opOut]

\* The key of step 2 is missing: the error comes after step 1 has been added.
C21_ColumnKeyMissing ==
    /\ InnerSumFailed
    /\ 2 \notin DOMAIN keys.evakey_rot_col_L
    /\ heap[call.opOut] # pre.heap[call.opOut]

\* ------------------------------------------------------- squaring shortcut

\* A Mul whose two operands are the same element and that reached tensorAndRescale.
SquaringCall ==
    /\ call.op = "Mul" /\ call.op0 = call.op1 /\ call.op0 # Nil
    /\ ~IsError(ret)

\* Work element e, and work polynomial i, hold what they held when the call started.
WorkElementKept(e) == ctxpool[e] = pre.cp[e]

WorkPolyKept(i) == polypool[i] = pre.pp[i]

\* C22: when Mul is called with the same element as both operands, of any
\* degree, work element 1 is not touched during the call; and every Mul leaves
\* work polynomials 2 and 3 alone.
C22_SquaringFrame ==
    /\ SquaringCall => WorkElementKept(1)
    /\ (call.op = "Mul") => (WorkPolyKept(2) /\ WorkPolyKept(3))

\* What the code does guarantee: the squaring of a degree-1 element leaves work
\* element 1 alone, and no Mul writes work polynomials 2 and 3.
C22_DegreeOneSquaringFrame ==
    /\ (SquaringCall /\ PreDegree(call.op0) = 1) => WorkElementKept(1)
    /\ (call.op = "Mul") => (WorkPolyKept(2) /\ WorkPolyKept(3))

\* A degree-1 element squared with success into a distinct receiver.
C22_DegreeOneSquared ==
    /\ SquaringCall /\ ret = "ok" /\ PreDegree(call.op0) = 1 /\ call.opOut # call.op0
    /\ heap[call.opOut] # pre.heap[call.opOut]
    /\ ~WorkElementKept(0) /\ WorkElementKept(1)

\* A degree-0 element squared with success: its Montgomery form was written to
\* work element 1.
C22_SquaringWroteWorkElementOne ==
    /\ SquaringCall /\ ret = "ok" /\ PreDegree(call.op0) = 0
    /\ ~WorkElementKept(1)

\* --------------------------------------------------------------- work pool

\* The combined degree a + b of the operands of the call.
CombinedDegree == PreDegree(call.op0) + PreDegree(call.op1)

\* C23: Mul stays within the work pool for every pair of operands of combined
\* degree a + b <= 4: no step of tensorAndRescale indexes a work element of
\* PoolLen = 5 polynomials at position 5 or above.
C23_MulWithinPool ==
    (MulAccepted /\ CombinedDegree <= PoolLen - 1) => ret # "panic"

\* What the code does guarantee: no overrun up to combined degree 3, the
\* receiver being of degree 4 at most.
C23_WithinPoolUpToThree ==
    (MulAccepted /\ CombinedDegree <= PoolLen - 2 /\ PreDegree(call.opOut) <= PoolLen - 1) =>
        ret = "ok"

\* A product of combined degree 3 into a receiver of degree 4 has been made.
C23_CombinedThree ==
    /\ MulAccepted /\ CombinedDegree = PoolLen - 2 /\ PreDegree(call.opOut) = PoolLen - 1
    /\ ret = "ok" /\ heap[call.opOut] # pre.heap[call.opOut]

\* Two distinct degree-2 operands and a receiver of degree 4: the zeroing loop
\* ran off the work element before any product was made.
C23_OverrunAtFour ==
    /\ MulAccepted /\ CombinedDegree = PoolLen - 1 /\ PreDegree(call.opOut) = PoolLen - 1
    /\ call.op0 # call.op1
    /\ ret = "panic" /\ TensorEvents = {}

\* ------------------------------------------------------ encoder work buffers

\* The complex128 encoder as NewEncoder makes it: values of m/4 and valuesfloat
\* of m/2 zeros. log and ret belong to the call in progress.
CxZero == CxInt(EncM, 0, 0)

NewEncoder ==
    [values |-> [t \in 0..(EncM \div 4 - 1) |-> CxZero],
     valuesfloat |-> [k \in 0..(EncM \div 2 - 1) |-> RealZero],
     log |-> <<>>, ret |-> "ok"]

CxIsZero(x) == \A k \in DOMAIN x.c : x.c[k] = 0

RealIsZero(x) == x.a = 0 /\ x.b = 0

\* for i := range encoder.values { encoder.values[i] = 0 }
WipeValues(e) == [e EXCEPT !.values = [t \in DOMAIN e.values |-> CxZero]]

WipeInternalMemory(e) ==
    [WipeValues(e) EXCEPT !.valuesfloat = [k \in DOMAIN e.valuesfloat |-> RealZero]]

\* The loop of Embed with the imaginary parts written slots entries after the
\* real parts instead of N/2 entries after them.
RECURSIVE EmbedLoop_ImagAfterSlots(_, _, _, _, _, _)
EmbedLoop_ImagAfterSlots(e, i, jdx, idx, slots, gap) ==
    IF i >= slots \/ e.ret # "ok" THEN e
    ELSE EmbedLoop_ImagAfterSlots(
           [e EXCEPT !.valuesfloat[idx] = real(e.values[i]),
                     !.valuesfloat[idx + slots] = imag(e.values[i]),
                     !.log = Append(@, <<"embed", i, idx, idx + slots>>)],
           i + 1, jdx + gap, idx + gap, slots, gap)

\* for i, jdx, idx := 0, N>>1, 0; i < slots; i, jdx, idx = i+1, jdx+gap, idx+gap
\* { valuesfloat[idx] = real(values[i]); valuesfloat[jdx] = imag(values[i]) }
RECURSIVE EmbedLoop(_, _, _, _, _, _)
EmbedLoop(e, i, jdx, idx, slots, gap) ==
    IF i >= slots \/ e.ret # "ok" THEN e
    ELSE IF {idx, jdx} \subseteq DOMAIN e.valuesfloat /\ i \in DOMAIN e.values
    THEN EmbedLoop([e EXCEPT !.valuesfloat[idx] = real(e.values[i]),
                             !.valuesfloat[jdx] = imag(e.values[i]),
                             !.log = Append(@, <<"embed", i, idx, jdx>>)],
                   i + 1, jdx + gap, idx + gap, slots, gap)
    ELSE [e EXCEPT !.ret = "panic"]

\* invfft(encoder.values, slots, ...) on the buffer of the encoder.
EncoderInvFFT(e, slots) ==
    LET f == invfft(e.values, slots, EncM, rotGroup(EncM), roots(EncM))
    IN  [e EXCEPT !.values = f.values, !.ret = f.ret]

\* for i := range values { encoder.values[i] = values[i] }
CopyValues(e, values) ==
    [e EXCEPT !.values = [t \in DOMAIN e.values |-> IF t \in DOMAIN values THEN values[t] ELSE e.values[t]]]

\* Embed on the encoder e: the values are copied over the first len(values)
\* entries of encoder.values, whatever the other entries hold.
EmbedOn(e, values, logSlots) ==
    IF Cardinality(DOMAIN values) > EncN \div 2 \/ Cardinality(DOMAIN values) > Pow2(logSlots)
         \/ logSlots > EncLogN - 1
    THEN [e EXCEPT !.ret = "panic"]
    ELSE EmbedLoop(EncoderInvFFT(CopyValues(e, values), Pow2(logSlots)),
                   0, EncN \div 2, 0, Pow2(logSlots), (EncN \div 2) \div Pow2(logSlots))

\* ScaleUp: scaleUpVecExact of the whole of encoder.valuesfloat.
ScaleUp(e, scale, level) == scaleUpVecExact(e.valuesfloat, scale, EncModuli, level)

\* Encode of the complex128 encoder on e: [e, plaintext].
EncodeOn(e, plaintext, values, logSlots) ==
    LET e1 == EmbedOn(e, values, logSlots)
    IN  IF e1.ret # "ok" THEN [e |-> e1, plaintext |-> plaintext]
        ELSE [e |-> WipeInternalMemory(e1),
              plaintext |-> [plaintext EXCEPT !.value = ScaleUp(e1, plaintext.scale, Level(plaintext)),
                                              !.isNTT = FALSE]]

\* GetErrSTDFreqDom: the differences are left in valuesfloat.
GetErrSTDFreqDom(e, valuesWant, valuesHave) ==
    IF ~(DOMAIN valuesWant \subseteq DOMAIN valuesHave) THEN [e EXCEPT !.ret = "panic"]
    ELSE [e EXCEPT !.valuesfloat =
            [k \in DOMAIN e.valuesfloat |->
               IF k \div 2 \in DOMAIN valuesWant
               THEN IF k % 2 = 0 THEN real(CxSub(valuesWant[k \div 2], valuesHave[k \div 2]))
                    ELSE imag(CxSub(valuesWant[k \div 2], valuesHave[k \div 2]))
               ELSE e.valuesfloat[k]]]

\* GetErrSTDTimeDom: the differences are left in values, their invfft in
\* values and valuesfloat.
GetErrSTDTimeDom(e, valuesWant, valuesHave) ==
    IF DOMAIN valuesWant # DOMAIN valuesHave THEN [e EXCEPT !.ret = "panic"]
    ELSE LET e1 == EncoderInvFFT(
                     CopyValues(e, [t \in DOMAIN valuesHave |-> CxSub(valuesWant[t], valuesHave[t])]),
                     Cardinality(DOMAIN valuesWant))
         IN  IF e1.ret # "ok" THEN e1
             ELSE [e1 EXCEPT !.valuesfloat =
                     [k \in DOMAIN e.valuesfloat |->
                        IF k \div 2 \in DOMAIN valuesWant
                        THEN IF k % 2 = 0 THEN real(e1.values[k \div 2]) ELSE imag(e1.values[k \div 2])
                        ELSE e.valuesfloat[k]]]

\* ------------------------------------------------------ signed reconstruction

\* polyToComplexNoCRT: if coeffs[idx] >= Q>>1 { -float64(Q - coeffs[idx]) } else { float64(coeffs[idx]) }
SignedNoCRT(c, Q) == IF c >= Q \div 2 THEN -(Q - c) ELSE c

\* polyToComplexCRT: Mod(Q), then Sub(Q) when Cmp(qHalf) is 1 or 0, qHalf = Q>>1.
SignedCRT(c, Q) ==
    LET r == c % Q
        qHalf == Q \div 2
    IN  IF r > qHalf \/ r = qHalf THEN r - Q ELSE r

\* decodeCoeffsPublic, level 0: the residue of the first modulus.
CoeffSignedNoCRT(c, Q) == IF c >= Q \div 2 THEN -(Q - c) ELSE c

\* decodeCoeffsPublic, level > 0: the lifted residue.
CoeffSignedCRT(c, Q) ==
    LET r == c % Q
        qHalf == Q \div 2
    IN  IF r > qHalf \/ r = qHalf THEN r - Q ELSE r

\* --------------------------------------------------- decoding on the buffers

\* gaussianSampler.ReadAndAddLvl(level, pol, ringQ, sigma, bound): the sampled
\* noise added to rows 0..level.
ReadAndAddLvl(level, pol, noise) ==
    [i \in DOMAIN pol |->
       IF i > level THEN pol[i]
       ELSE [k \in DOMAIN pol[i] |-> (pol[i][k] + noise[k] + EncModuli[i]) % EncModuli[i]]]

\* The samples a Gaussian of deviation sigma bounded by floor(sigma sqrt(2 pi))
\* can give: nothing but zeros when the bound is 0.
NoNoise == [k \in 0..(EncN - 1) |-> 0]

Noises(sigma) ==
    IF sigma = 0 THEN {NoNoise}
    ELSE {NoNoise, [k \in 0..(EncN - 1) |-> IF k = 0 THEN 1 ELSE IF k = EncN \div 2 THEN -1 ELSE 0]}

\* InvNTTLvl into encoder.polypool when the plaintext is in NTT form, CopyLvl otherwise.
ToPolypool(plaintext) ==
    IF plaintext.isNTT THEN InvNTTLvl(Level(plaintext), plaintext.value) ELSE plaintext.value

\* The event of that step.
ToPolypoolEvent(plaintext) == IF plaintext.isNTT THEN <<"InvNTTLvl">> ELSE <<"CopyLvl">>

\* The encoder with the events evs added to the log of the call.
Logged(e, evs) == [e EXCEPT !.log = e.log \o evs]

\* for i, idx := 0, 0; i < slots; i, idx = i+1, idx+gap: values[i] from the
\* signed coefficients idx and idx+maxSlots, over the scale.
RECURSIVE polyToComplexLoop(_, _, _, _, _, _, _, _)
polyToComplexLoop(e, signed, scale, i, idx, slots, gap, maxSlots) ==
    IF i >= slots \/ e.ret # "ok" THEN e
    ELSE IF {idx, idx + maxSlots} \subseteq DOMAIN signed /\ i \in DOMAIN e.values
    THEN polyToComplexLoop(
           [e EXCEPT !.values[i] = CxDiv(CxInt(EncM, signed[idx], signed[idx + maxSlots]), scale),
                     !.log = Append(@, <<"read", i, idx, idx + maxSlots>>)],
           signed, scale, i + 1, idx + gap, slots, gap, maxSlots)
    ELSE [e EXCEPT !.ret = "panic"]

\* plaintextToComplex on the encoder's buffer: the residues of the first
\* modulus when scale < Modulus[0] or level = 0, the lifted residues otherwise.
plaintextToComplexOn(e, level, scale, logSlots, p) ==
    IF scale < EncModuli[0] \/ level = 0
    THEN polyToComplexLoop(e, [k \in DOMAIN p[0] |-> SignedNoCRT(p[0][k], EncModuli[0])], scale,
                           0, 0, Pow2(logSlots),
                           (Cardinality(DOMAIN p[0]) \div 2) \div Pow2(logSlots),
                           Cardinality(DOMAIN p[0]) \div 2)
    ELSE polyToComplexLoop(e, [k \in 0..(EncN - 1) |->
                                 SignedCRT(PolyToBigint(p, level, k), genBigIntChain(level))],
                           scale, 0, 0, Pow2(logSlots), (EncN \div 2) \div Pow2(logSlots), EncN \div 2)

\* fft(encoder.values, slots, ...) on the buffer of the encoder.
EncoderFFT(e, slots) ==
    IF e.ret # "ok" \/ ~Settled(e.values) THEN e
    ELSE LET f == fft(e.values, slots, EncM, rotGroup(EncM), roots(EncM))
         IN  [e EXCEPT !.values = f.values, !.ret = f.ret]

\* The result of decodePublic and the wipe of encoder.values that follows.
DecodeResult(e, slots) ==
    [e |-> IF e.ret = "ok" THEN WipeValues(e) ELSE e,
     res |-> [i \in 0..(slots - 1) |-> e.values[i]]]

\* decodePublic of the complex128 encoder: the sampler is called whatever sigma is.
decodePublicOn(e, plaintext, logSlots, sigma, noise) ==
    IF logSlots > EncLogN - 1 THEN [e |-> [e EXCEPT !.ret = "panic"], res |-> <<>>]
    ELSE DecodeResult(
           EncoderFFT(
             plaintextToComplexOn(Logged(e, <<ToPolypoolEvent(plaintext), <<"ReadAndAddLvl", sigma>>>>),
                                  Level(plaintext), plaintext.scale, logSlots,
                                  ReadAndAddLvl(Level(plaintext), ToPolypool(plaintext), noise)),
             Pow2(logSlots)),
           Pow2(logSlots))

\* decodeCoeffsPublic: the sampler is called when sigma != 0; the N signed
\* coefficients over the scale, lifted when the level is above 0.
decodeCoeffsPublicOn(e, plaintext, sigma, noise) ==
    LET level == Level(plaintext)
        pol == IF sigma # 0 THEN ReadAndAddLvl(level, ToPolypool(plaintext), noise)
               ELSE ToPolypool(plaintext)
    IN  [e |-> Logged(e, IF sigma # 0 THEN <<ToPolypoolEvent(plaintext), <<"ReadAndAddLvl", sigma>>>>
                         ELSE <<ToPolypoolEvent(plaintext)>>),
         res |-> [k \in 0..(EncN - 1) |->
                    [a |-> IF level > 0
                           THEN CoeffSignedCRT(PolyToBigint(pol, level, k), genBigIntChain(level))
                           ELSE CoeffSignedNoCRT(pol[0][k], EncModuli[0]),
                     b |-> 0, d |-> plaintext.scale]]]

\* decodePublic of the arbitrary-precision encoder: InvNTTLvl whatever the form
\* of the plaintext, the sampler when sigma != 0, the lifted residues at every
\* level. Its buffers are zero between calls (Encode and decodePublic wipe them).
decodePublicBig(plaintext, logSlots, sigma, noise) ==
    IF logSlots > EncLogN - 1 THEN [e |-> [NewEncoder EXCEPT !.ret = "panic"], res |-> <<>>]
    ELSE LET level == Level(plaintext)
             inv == InvNTTLvl(level, plaintext.value)
             pol == IF sigma # 0 THEN ReadAndAddLvl(level, inv, noise) ELSE inv
         IN  DecodeResult(
               EncoderFFT(
                 polyToComplexLoop(
                   Logged(NewEncoder, IF sigma # 0 THEN <<<<"InvNTTLvl">>, <<"ReadAndAddLvl", sigma>>>>
                                      ELSE <<<<"InvNTTLvl">>>>),
                   [k \in 0..(EncN - 1) |-> SignedCRT(PolyToBigint(pol, level, k), genBigIntChain(level))],
                   plaintext.scale, 0, 0, Pow2(logSlots), (EncN \div 2) \div Pow2(logSlots), EncN \div 2),
                 Pow2(logSlots)),
               Pow2(logSlots))

\* ------------------------------------------------------- calls on one encoder

\* EncodeNTT of the complex128 encoder on e.
EncodeNTTOn(e, plaintext, values, logSlots) ==
    LET r == EncodeOn(e, plaintext, values, logSlots)
    IN  IF r.e.ret # "ok" THEN r
        ELSE [e |-> r.e,
              plaintext |-> [r.plaintext EXCEPT !.value = NTTLvl(Level(r.plaintext), r.plaintext.value),
                                                !.isNTT = TRUE]]

\* The buffers of the encoder the calls are made on.
Buffers(e) == [values |-> e.values, valuesfloat |-> e.valuesfloat]

TheEncoder ==
    IF 3 \in DOMAIN heap
    THEN [values |-> heap[3].values, valuesfloat |-> heap[3].valuesfloat, log |-> <<>>, ret |-> "ok"]
    ELSE NewEncoder

\* The slot values handed to the encoder under test, and the vectors of at most
\* 2^logSlots of them.
CodecEntries == {CxInt(EncM, 1, 0), CxInt(EncM, 0, -1), CxInt(EncM, 1, 1)}

CodecValues(logSlots) == {v \in EncValues(logSlots) : \A t \in DOMAIN v : v[t] \in CodecEntries}

\* Scales below and above the first modulus.
CodecScales == {16, 128}

\* The public noise deviations handed to the decoders.
Sigmas == {0, 1}

\* The call c on the encoder took it to e, with plaintext and result as given.
CodecReturn(c, plaintext, res, e, next) ==
    EncReturn(c,
              [id \in 1..3 |-> IF id = 1 THEN plaintext
                               ELSE IF id = 2 THEN [value |-> res, isNTT |-> FALSE]
                               ELSE Buffers(e)],
              e.log, e.ret, next)

NoPlaintext == NewPlaintext(0, 1)

CallGetErrSTD(op) ==
    /\ pc = "idle"
    /\ \E valuesWant \in CodecValues(EncLogN - 1) \ {<<>>} :
         LET valuesHave == [t \in DOMAIN valuesWant |-> CxZero]
             e == IF op = "GetErrSTDFreqDom"
                  THEN GetErrSTDFreqDom(TheEncoder, valuesWant, valuesHave)
                  ELSE GetErrSTDTimeDom(TheEncoder, valuesWant, valuesHave)
         IN  CodecReturn([op |-> op, valuesWant |-> valuesWant, before |-> Buffers(TheEncoder)],
                         NoPlaintext, <<>>, e, "used")

EncoderGetErrSTDFreqDom == CallGetErrSTD("GetErrSTDFreqDom")

EncoderGetErrSTDTimeDom == CallGetErrSTD("GetErrSTDTimeDom")

\* Encode and EncodeNTT on a new plaintext, after any earlier call.
CallEncodeOn(op) ==
    /\ pc \in {"idle", "used"}
    /\ \E scale \in CodecScales, level \in 0..MaxLevel, logSlots \in 0..(EncLogN - 1) :
         \E values \in CodecValues(logSlots) :
            LET r == IF op = "Encode"
                     THEN EncodeOn(TheEncoder, NewPlaintext(level, scale), values, logSlots)
                     ELSE EncodeNTTOn(TheEncoder, NewPlaintext(level, scale), values, logSlots)
            IN  CodecReturn([op |-> op, enc |-> "complex128", scale |-> scale, level |-> level,
                             values |-> values, logSlots |-> logSlots,
                             before |-> Buffers(TheEncoder)],
                            r.plaintext, <<>>, r.e, "enc")

EncoderEncode == CallEncodeOn("Encode")

EncoderEncodeNTT == CallEncodeOn("EncodeNTT")

\* DecodePublic of the plaintext just encoded; Decode is DecodePublic with sigma = 0.
EncoderDecodePublic ==
    /\ pc = "enc" /\ ret = "ok"
    /\ \E sigma \in Sigmas : \E noise \in Noises(sigma) :
         LET r == decodePublicOn(TheEncoder, heap[1], call.logSlots, sigma, noise)
         IN  CodecReturn([op |-> "DecodePublic", enc |-> "complex128", sigma |-> sigma,
                          logSlots |-> call.logSlots, encode |-> call, embed |-> log,
                          before |-> Buffers(TheEncoder)],
                         heap[1], r.res, r.e, "dec")

\* DecodeCoeffsPublic of the plaintext just encoded; DecodeCoeffs is sigma = 0.
EncoderDecodeCoeffsPublic ==
    /\ pc = "enc" /\ ret = "ok"
    /\ \E sigma \in Sigmas : \E noise \in Noises(sigma) :
         LET r == decodeCoeffsPublicOn(TheEncoder, heap[1], sigma, noise)
         IN  CodecReturn([op |-> "DecodeCoeffsPublic", enc |-> "complex128", sigma |-> sigma,
                          encode |-> call, before |-> Buffers(TheEncoder)],
                         heap[1], r.res, r.e, "dec")

\* Encode and EncodeNTT of the arbitrary-precision encoder on a plaintext the
\* caller made, in either form.
CallEncodeBig(op) ==
    /\ pc = "idle"
    /\ \E scale \in CodecScales, level \in 0..MaxLevel, logSlots \in 0..(EncLogN - 1), ntt \in BOOLEAN :
         \E values \in CodecValues(logSlots) :
            LET plaintext == [NewPlaintext(level, scale) EXCEPT !.isNTT = ntt]
                r == IF op = "Encode" THEN Encode("big", plaintext, values, logSlots)
                     ELSE EncodeNTT("big", plaintext, values, logSlots)
            IN  CodecReturn([op |-> op, enc |-> "big", scale |-> scale, level |-> level,
                             values |-> values, logSlots |-> logSlots, isNTT |-> ntt],
                            r.plaintext, <<>>, [NewEncoder EXCEPT !.ret = r.ret], "encbig")

EncoderBigEncode == CallEncodeBig("Encode")

EncoderBigEncodeNTT == CallEncodeBig("EncodeNTT")

EncoderBigDecodePublic ==
    /\ pc = "encbig" /\ ret = "ok"
    /\ \E sigma \in Sigmas : \E noise \in Noises(sigma) :
         LET r == decodePublicBig(heap[1], call.logSlots, sigma, noise)
         IN  CodecReturn([op |-> "DecodePublic", enc |-> "big", sigma |-> sigma,
                          logSlots |-> call.logSlots, encode |-> call],
                         heap[1], r.res, r.e, "dec")

\* ------------------------------------------------------------ scratch hygiene

\* Every entry of the two buffers is zero.
BuffersZero(b) ==
    /\ \A t \in DOMAIN b.values : CxIsZero(b.values[t])
    /\ \A k \in DOMAIN b.valuesfloat : RealIsZero(b.valuesfloat[k])

\* The last call is Encode or EncodeNTT of the complex128 encoder and returned.
EncodeOnCall ==
    /\ call.op \in {"Encode", "EncodeNTT"} /\ call.enc = "complex128" /\ ret = "ok"

\* What a new encoder makes of the arguments of the last Encode or EncodeNTT.
FreshEncoding ==
    IF call.op = "Encode"
    THEN EncodeOn(NewEncoder, NewPlaintext(call.level, call.scale), call.values, call.logSlots).plaintext
    ELSE EncodeNTTOn(NewEncoder, NewPlaintext(call.level, call.scale), call.values, call.logSlots).plaintext

\* C24: after any sequence of public calls on a complex128 encoder, every entry
\* of the complex buffer and of the real buffer is zero when the next Embed
\* starts, and the plaintext Encode produces depends only on its arguments and
\* the plaintext's level and scale, not on the calls made before it.
C24_ScratchHygiene ==
    EncodeOnCall => (BuffersZero(call.before) /\ heap[1] = FreshEncoding)

\* What the code does guarantee: Encode, EncodeNTT and the decoders, started on
\* zero buffers, leave zero buffers.
C24_EncodeDecodeLeaveZero ==
    (call.op \in {"Encode", "EncodeNTT", "DecodePublic", "DecodeCoeffsPublic"}
       /\ call.enc = "complex128" /\ ret = "ok" /\ BuffersZero(call.before)) =>
        BuffersZero(heap[3])

\* A slot decoding of two slots started and ended on zero buffers.
C24_DecodedOnZero ==
    /\ call.op = "DecodePublic" /\ call.enc = "complex128" /\ ret = "ok" /\ call.logSlots = 1
    /\ BuffersZero(call.before) /\ BuffersZero(heap[3])
    /\ \E i \in DOMAIN heap[2].value : ~CxIsZero(heap[2].value[i])

\* One value encoded on one slot after GetErrSTDFreqDom on two values: the
\* plaintext is not the one a new encoder makes.
C24_ResidueEncoded ==
    /\ EncodeOnCall /\ call.op = "Encode" /\ call.logSlots = 0
    /\ Cardinality(DOMAIN call.values) = 1
    /\ ~BuffersZero(call.before)
    /\ \A t \in DOMAIN call.before.values : CxIsZero(call.before.values[t])
    /\ heap[1] # FreshEncoding

\* ------------------------------------------------------------------- layout

\* An encoder of ring degree n whose complex buffer holds slot i's mark
\* (i + 1) - (i + 1) j, and whose real buffer is zero.
Marked(n) ==
    [values |-> [t \in 0..(n \div 2 - 1) |-> CxInt(EncM, t + 1, -(t + 1))],
     valuesfloat |-> [k \in 0..(n - 1) |-> RealZero],
     log |-> <<>>, ret |-> "ok"]

\* The integer a real buffer entry holds.
Whole(x) == x.a \div x.d

\* The loop of Embed at ring degree n, then the loop of polyToComplex on the
\* coefficients it wrote, read back into a zero buffer.
EmbedThenRead ==
    /\ pc = "idle"
    /\ \E n \in PassLens(N, EncN) : \E slots \in PassLens(n \div 2, 1) :
         LET gap == (n \div 2) \div slots
             e1 == EmbedLoop(Marked(n), 0, n \div 2, 0, slots, gap)
             e2 == polyToComplexLoop([e1 EXCEPT !.values = [t \in DOMAIN e1.values |-> CxZero]],
                                     [k \in DOMAIN e1.valuesfloat |-> Whole(e1.valuesfloat[k])],
                                     1, 0, 0, slots, gap, n \div 2)
         IN  CodecReturn([op |-> "embed;read", N |-> n, slots |-> slots],
                         NoPlaintext, e2.values, e2, "done")

\* The events named kind of a log, in order.
RECURSIVE EventsOf(_, _)
EventsOf(lg, kind) ==
    IF lg = <<>> THEN <<>>
    ELSE IF Head(lg)[1] = kind THEN <<Head(lg)>> \o EventsOf(Tail(lg), kind)
    ELSE EventsOf(Tail(lg), kind)

\* The events of kind are one per slot, in order: slot i at i*gap and n/2 + i*gap.
LayoutOf(evs, kind, n, slots) ==
    /\ Len(evs) = slots
    /\ \A i \in 0..(slots - 1) :
          evs[i + 1] = <<kind, i, i * ((n \div 2) \div slots), n \div 2 + i * ((n \div 2) \div slots)>>

\* The indices of the events stay below n/2 and n, and none comes twice.
LayoutInRange(evs, n) ==
    /\ \A t \in 1..Len(evs) : evs[t][3] \in 0..(n \div 2 - 1) /\ evs[t][4] \in (n \div 2)..(n - 1)
    /\ Cardinality({evs[t][3] : t \in 1..Len(evs)} \cup {evs[t][4] : t \in 1..Len(evs)}) = 2 * Len(evs)

\* Slot i was written to and read from the same two positions.
SamePositions(embeds, reads) ==
    /\ Len(embeds) = Len(reads)
    /\ \A t \in 1..Len(embeds) : Tail(embeds[t]) = Tail(reads[t])

\* C25: with gap = (N/2)/slots, Embed writes the real part of slot i to index
\* i*gap and its imaginary part to index N/2 + i*gap for every i in 0..slots-1,
\* the indices stay below N/2 and N and none is written twice; decoding reads
\* slot i from the same two positions, for every power-of-two slots <= N/2:
\* the marks embedded come back in their slots and the entries Embed does not
\* write stay zero.
C25_Layout ==
    /\ (call.op = "embed;read") =>
          /\ ret = "ok"
          /\ LayoutOf(EventsOf(log, "embed"), "embed", call.N, call.slots)
          /\ LayoutInRange(EventsOf(log, "embed"), call.N)
          /\ LayoutOf(EventsOf(log, "read"), "read", call.N, call.slots)
          /\ SamePositions(EventsOf(log, "embed"), EventsOf(log, "read"))
          /\ \A i \in 0..(call.slots - 1) : CxEq(heap[2].value[i], Marked(call.N).values[i])
          /\ \A k \in DOMAIN heap[3].valuesfloat :
                (\A t \in 1..Len(log) : k \notin {log[t][3], log[t][4]}) =>
                    RealIsZero(heap[3].valuesfloat[k])
    /\ (call.op = "DecodePublic" /\ call.enc = "complex128" /\ ret = "ok") =>
          /\ LayoutOf(EventsOf(call.embed, "embed"), "embed", EncN, Pow2(call.logSlots))
          /\ SamePositions(EventsOf(call.embed, "embed"), EventsOf(log, "read"))

\* Four slots of a ring of degree 16, two entries apart, came back in place.
C25_Witness ==
    /\ call.op = "embed;read" /\ ret = "ok" /\ call.N = N /\ call.slots = N \div 4
    /\ Len(log) = 2 * call.slots
    /\ log[2] = <<"embed", 1, 2, N \div 2 + 2>>
    /\ CxEq(heap[2].value[3], CxInt(EncM, 4, -4))

\* ------------------------------------------------------------ public noise

\* The last call is a decoder that returned.
DecoderCall == call.op \in {"DecodePublic", "DecodeCoeffsPublic"} /\ ret = "ok"

\* The number of times the call invoked the Gaussian sampler.
SamplerCalls == Len(EventsOf(log, "ReadAndAddLvl"))

\* C26: the public-decoding noise is sampled and added if and only if the
\* caller passes a non-zero sigma: with sigma = 0 neither the slot decoder nor
\* the coefficient decoder invokes the sampler, and with sigma != 0 it is
\* invoked exactly once.
C26_SamplerIffSigma ==
    DecoderCall => SamplerCalls = (IF call.sigma = 0 THEN 0 ELSE 1)

\* What the code does: the coefficient decoder and the arbitrary-precision slot
\* decoder test sigma, the complex128 slot decoder invokes the sampler once
\* whatever sigma is.
C26_SlotDecoderAlwaysSamples ==
    DecoderCall =>
        SamplerCalls = (IF call.op = "DecodePublic" /\ call.enc = "complex128" THEN 1
                        ELSE IF call.sigma = 0 THEN 0 ELSE 1)

\* Decode (sigma = 0) of the complex128 slot decoder went through the sampler.
C26_SampledAtZero ==
    /\ DecoderCall /\ call.op = "DecodePublic" /\ call.enc = "complex128" /\ call.sigma = 0
    /\ SamplerCalls = 1

\* The coefficient decoder skipped the sampler at sigma = 0, on a plaintext
\* that was encoded in NTT form.
C26_CoeffsSkipped ==
    /\ DecoderCall /\ call.op = "DecodeCoeffsPublic" /\ call.sigma = 0
    /\ call.encode.op = "EncodeNTT" /\ SamplerCalls = 0

\* ------------------------------------------------ the arbitrary-precision encoder

\* The last call is Encode or EncodeNTT of the arbitrary-precision encoder.
BigEncodeCall == call.op \in {"Encode", "EncodeNTT"} /\ call.enc = "big"

\* The last call is its decodePublic, and returned.
BigDecodeCall == call.op = "DecodePublic" /\ call.enc = "big" /\ ret = "ok"

\* What the complex128 encoder answers to the arguments of the last Encode.
Complex128Encode ==
    EncodeOn(NewEncoder, [NewPlaintext(call.level, call.scale) EXCEPT !.isNTT = call.isNTT],
             call.values, call.logSlots)

\* C27: the arbitrary-precision encoder follows the control flow of the
\* complex128 encoder: Encode accepts any len(values) <= slots and leaves the
\* plaintext in coefficient form; Decode applies the inverse NTT only when the
\* plaintext is in NTT form and copies otherwise.
C27_SameControlFlow ==
    /\ BigEncodeCall =>
         /\ ret = Complex128Encode.e.ret
         /\ (ret = "ok" /\ call.op = "Encode") => ~heap[1].isNTT
    /\ BigDecodeCall => log[1] = ToPolypoolEvent(heap[1])

\* What the code does: Encode returns only for len(values) = slots and leaves
\* the flag of the plaintext as the caller set it, EncodeNTT sets it, and
\* decodePublic starts with the inverse NTT whatever the flag is.
C27_BigEncoderFlow ==
    /\ BigEncodeCall =>
         /\ ret = (IF Cardinality(DOMAIN call.values) = Pow2(call.logSlots) THEN "ok" ELSE "panic")
         /\ ret = "ok" => heap[1].isNTT = (IF call.op = "Encode" THEN call.isNTT ELSE TRUE)
    /\ BigDecodeCall => log[1] = <<"InvNTTLvl">>

\* Encode refused fewer values than slots, which the complex128 encoder accepts.
C27_ShortVectorRefused ==
    /\ BigEncodeCall /\ ret = "panic" /\ Complex128Encode.e.ret = "ok"
    /\ Cardinality(DOMAIN call.values) < Pow2(call.logSlots)

\* Decode applied the inverse NTT to a plaintext in coefficient form.
C27_InverseNTTOnCoefficients ==
    BigDecodeCall /\ ~heap[1].isNTT /\ log[1] = <<"InvNTTLvl">>

\* Encode returned a plaintext whose flag says NTT form.
C27_EncodeLeftFlag ==
    BigEncodeCall /\ call.op = "Encode" /\ ret = "ok" /\ heap[1].isNTT

\* -------------------------------------------------- degree-mixed subtraction

\* The last call is a subtraction that returned.
SubDone == call.op \in {"Sub", "SubNoMod"} /\ ret = "ok"

\* p is -q modulo Q, coefficient by coefficient.
IsNegationOf(p, q) == \A u \in Idx : (p.c[u] + q.c[u]) % contextQ.mod = 0

\* p is a - b modulo Q, coefficient by coefficient.
IsDifferenceOf(p, a, b) == \A u \in Idx : (p.c[u] + b.c[u] - a.c[u]) % contextQ.mod = 0

\* C29: Sub and SubNoMod on operands of different degrees equal subtraction
\* after zero-padding the shorter operand: when the subtrahend op1 has the
\* higher degree, the receiver holds 0 - op1.value[i] at every index i above
\* the degree of op0.
C29_SubZeroPadded ==
    SubDone =>
        \A i \in (PreDegree(call.op0) + 1)..PreDegree(call.op1) :
           IsNegationOf(heap[call.opOut].value[i], PreValue(call.op1)[i])

\* What the code does guarantee: the difference of the zero-padded operands at
\* every index up to the degree of op0, and op1.value[i] itself above it.
C29_SubUpToMinuendDegree ==
    SubDone =>
        /\ \A i \in 0..PreDegree(call.op0) :
              IsDifferenceOf(heap[call.opOut].value[i], Padded(call.op0, i), Padded(call.op1, i))
        /\ \A i \in (PreDegree(call.op0) + 1)..PreDegree(call.op1) :
              heap[call.opOut].value[i] = PreValue(call.op1)[i]

\* Sub of a degree-0 element and a degree-1 element into a third one left
\* op1.value[1], which is not zero, in the receiver.
C29_SubtrahendCopied ==
    /\ SubDone /\ call.op = "Sub"
    /\ call.op0 = 1 /\ call.op1 = 2 /\ call.opOut = 3
    /\ PreDegree(1) = 0 /\ PreDegree(2) = 1
    /\ heap[3].value[1] = pre.heap[2].value[1]
    /\ ~IsNegationOf(heap[3].value[1], pre.heap[2].value[1])

\* ------------------------------------------------------------- the signed lift

\* The residues put through the signed reconstruction: all of them for the
\* first modulus, those around 0, Q>>1 and Q for a product of moduli.
LiftResidues(level) ==
    LET Q == genBigIntChain(level)
    IN  IF level = 0 THEN 0..(Q - 1)
        ELSE {0, 1, Q \div 4, Q \div 2 - 1, Q \div 2, Q \div 2 + 1, Q - 2, Q - 1}

\* The rows of a polynomial whose coefficient 0 is c, at the given level.
RowsOf(c, level) == [i \in 0..level |-> [k \in {0} |-> c % EncModuli[i]]]

\* One coefficient through the sign branch of the slot decoder and of the
\* coefficient decoder: directly from the first modulus, or lifted over
\* q_0...q_level and centred.
SignedLift ==
    /\ pc = "idle"
    /\ \E level \in 0..MaxLevel : \E c \in LiftResidues(level) :
         LET Q == genBigIntChain(level)
             rows == RowsOf(c, level)
         IN  CodecReturn([op |-> "lift", level |-> level, Q |-> Q, c |-> c,
                          slot |-> IF level = 0 THEN SignedNoCRT(rows[0][0], Q)
                                   ELSE SignedCRT(PolyToBigint(rows, level, 0), Q),
                          coeff |-> IF level = 0 THEN CoeffSignedNoCRT(rows[0][0], Q)
                                    ELSE CoeffSignedCRT(PolyToBigint(rows, level, 0), Q)],
                         NoPlaintext, <<>>, TheEncoder, "done")

Abs(x) == IF x < 0 THEN -x ELSE x

\* C30: signed reconstruction in decoding is the centred lift: for every
\* modulus Q used and every residue c in 0..Q-1 the signed integer r satisfies
\* r = c (mod Q) and |r| <= Q/2, and the slot decoder and the coefficient
\* decoder produce the same r.
C30_CentredLift ==
    call.op = "lift" =>
        /\ (call.slot - call.c) % call.Q = 0
        /\ 2 * Abs(call.slot) <= call.Q
        /\ call.coeff = call.slot

\* What the code does guarantee: r = c (mod Q) in the half-open range
\* -(Q+1)/2 <= r < (Q-1)/2, the same in both decoders.
C30_LiftFromHalfDown ==
    call.op = "lift" =>
        /\ (call.slot - call.c) % call.Q = 0
        /\ -(call.Q + 1) <= 2 * call.slot /\ 2 * call.slot < call.Q - 1
        /\ call.slot = (IF call.c >= call.Q \div 2 THEN call.c - call.Q ELSE call.c)
        /\ call.coeff = call.slot

\* The residue (Q-1)/2 of a product of moduli came out as -(Q+1)/2.
C30_HalfGoesNegative ==
    /\ call.op = "lift" /\ call.level > 0 /\ call.c = (call.Q - 1) \div 2
    /\ call.slot = -((call.Q + 1) \div 2) /\ 2 * Abs(call.slot) > call.Q

NextCodec ==
    \/ EncoderGetErrSTDFreqDom
    \/ EncoderGetErrSTDTimeDom
    \/ EncoderEncode
    \/ EncoderEncodeNTT
    \/ EncoderDecodePublic
    \/ EncoderDecodeCoeffsPublic
    \/ EncoderBigEncode
    \/ EncoderBigEncodeNTT
    \/ EncoderBigDecodePublic
    \/ EmbedThenRead
    \/ SignedLift

SpecCodec == Init /\ [][NextCodec]_vars

\* ------------------------------------------------- Mul after earlier operations

\* An earlier Mul on the same Evaluator: it leaves its intermediate values in
\* the work pools.
EvaluatorMulEarlier ==
    /\ pc = "idle"
    /\ \E seed \in Seeds, dx, dy \in 0..MaxDeg :
         LET h == Operands(seed, dx, dy, dx + dy, FALSE)
         IN  Return(h, NoKeys, [op |-> "Mul", op0 |-> 1, op1 |-> 2, opOut |-> 3],
                    Mul(Machine(h, polypool, ctxpool), 1, 2, 3), "used")

\* The receivers handed to the later Mul have degree a+b, a+b+1 or a+b+2.
ReceiverSlack == {0, 1, 2}

\* Mul on new operands, on a new Evaluator or after the earlier Mul: the pools
\* are as the earlier call left them.
EvaluatorMulLater ==
    /\ pc \in {"idle", "used"}
    /\ \E seed \in Seeds, dx, dy \in 0..MaxDeg, a \in {<<1, 2, 3>>, <<1, 1, 3>>}, slack \in ReceiverSlack :
         LET need == dx + (IF a[2] = 1 THEN dx ELSE dy)
             h == Operands(seed, dx, dy, need + slack, FALSE)
         IN  Return(h, NoKeys,
                    [op |-> "Mul", op0 |-> a[1], op1 |-> a[2], opOut |-> a[3], history |-> pc],
                    Mul(Machine(h, polypool, ctxpool), a[1], a[2], a[3]), "later")

NextHistory ==
    \/ EvaluatorMulEarlier
    \/ EvaluatorMulLater

SpecHistory == Init /\ [][NextHistory]_vars

\* The later Mul returned.
LaterMulDone == pc = "later" /\ ret = "ok"

\* What the same Mul writes to the receiver on a new Evaluator.
OnNewEvaluator ==
    Mul(Machine(pre.heap, [i \in 0..3 |-> ZeroPoly],
                [e \in 0..2 |-> [i \in 0..(PoolLen - 1) |-> ZeroPoly]]),
        call.op0, call.op1, call.opOut).heap[call.opOut].value

\* C28: the value Mul writes to the receiver is a function of the two operands
\* only: after any history of earlier operations on the same Evaluator, Mul
\* on the same operands writes the same polynomials to the receiver, also
\* when the receiver's degree is larger than a+b.
C28_MulHistoryFree ==
    LaterMulDone => heap[call.opOut].value = OnNewEvaluator

\* What the code does guarantee: the polynomials 0..a+b of the receiver are
\* those of a new Evaluator, and so is polynomial a+b+1 when the operands are
\* not both of degree 1.
C28_UpToCombinedDegree ==
    LaterMulDone =>
        LET ab == PreDegree(call.op0) + PreDegree(call.op1)
            top == IF PreDegree(call.op0) = 1 /\ PreDegree(call.op1) = 1 THEN ab ELSE ab + 1
        IN  \A i \in 0..top :
               i \in DOMAIN heap[call.opOut].value => heap[call.opOut].value[i] = OnNewEvaluator[i]

\* A degree-1 by degree-1 Mul into a receiver of degree 3, after an earlier
\* Mul, wrote coefficients to polynomial 3 that a new Evaluator does not write.
C28_ResidueInReceiver ==
    /\ LaterMulDone /\ call.history = "used"
    /\ PreDegree(call.op0) = 1 /\ PreDegree(call.op1) = 1 /\ PreDegree(call.opOut) = 3
    /\ heap[call.opOut].value[3].c # OnNewEvaluator[3].c

\* The same polynomials were written after an earlier Mul as on a new
\* Evaluator, to a receiver of degree a+b+1.
C28_SameAfterHistory ==
    /\ LaterMulDone /\ call.history = "used"
    /\ PreDegree(call.opOut) = PreDegree(call.op0) + PreDegree(call.op1) + 1
    /\ heap[call.opOut].value = OnNewEvaluator
    /\ \E i \in DOMAIN pre.cp[2] : pre.cp[2][i] # ZeroPoly

====
